---- MODULE Spec2Model ----
(***************************************************************************)
(* Verification model of indiwebmanager's process supervision:             *)
(*   indiweb/AsyncSystemCommand.py  (the asynchronous process runner)      *)
(*   indiweb/indi_server.py         (IndiServer: server and driver control)*)
(*   indiweb/driver.py              (DeviceDriver, DriverCollection)       *)
(*                                                                         *)
(* Threads of the program that appear here:                                *)
(*   - the caller (the HTTP event loop), which runs one IndiServer         *)
(*     operation at a time: start, stop, is_running, start_driver,         *)
(*     stop_driver;                                                        *)
(*   - one command thread per start(), executing AsyncSystemCommand.run;   *)
(*   - one driver starter worker per start() that was given drivers;       *)
(*   - the operating system, which lets a server process exit.             *)
(***************************************************************************)
EXTENDS Integers, Sequences, FiniteSets, TLC

(* ------------------------------ bounds -------------------------------- *)
\* number of start() calls explored (each creates one AsyncSystemCommand)
MaxStarts == 2
\* number of direct start_driver / stop_driver calls explored
MaxDriverOps == 3

(* --------------------------- program constants ------------------------ *)
INDI_PORT == 7624
\* a second port a profile may ask for
OtherPort == INDI_PORT + 1
Ports == {INDI_PORT, OtherPort}
\* "no port argument" (port=None) and "no handle" (None)
NoPort == 0
None == 0

(* -------------------------------- text -------------------------------- *)
\* A Python str is a sequence of symbols.  A symbol is one of the characters
\* the code treats specially, or a letter, or a run of ordinary characters
\* (a name such as indi_a) that contains none of the special ones.
Quote == "\""
Backslash == "\\"
At == "@"
\* s contains the character c:  c in s
Contains(s, c) == \E i \in 1..Len(s) : s[i] = c

\* The value of driver.binary for an object that has no binary attribute
NoBinary == << "<missing>" >>
\* skel=None
NoSkeleton == << >>

\* DeviceDriver objects.  rule is the outcome class of the driver's lifecycle
\* rule: "none" (no rule), "ok" (delays and scripts that succeed),
\* "prefail" (PreScript/StoppingScript fails), "postfail" (PostScript/
\* StoppedScript fails), "raise" (a PreDelay that is not a number: the
\* comparison pre_delay > 0 raises TypeError).
Descriptor(label, binary, skel, mdpd, rule) ==
  [label |-> label, binary |-> binary, skeleton |-> skel, mdpd |-> mdpd, rule |-> rule]
\* The constructor with its defaults: skel=None, mdpd=False
DeviceDriver(label, binary, rule) == Descriptor(label, binary, NoSkeleton, FALSE, rule)
Drivers ==
  { DeviceDriver(<< "A" >>, << "indi_a" >>, "none"),
    DeviceDriver(<< "B" >>, << "indi_b" >>, "ok"),
    DeviceDriver(<< "A" >>, << "indi_a2" >>, "none"),
    DeviceDriver(<< "C" >>, << "indi_c" >>, "prefail"),
    DeviceDriver(<< "D" >>, << "indi_d" >>, "postfail"),
    DeviceDriver(<< "E" >>, NoBinary, "none"),
    DeviceDriver(<< "F" >>, << "indi_f" >>, "raise") }

\* The descriptors handed to start_driver/stop_driver where the text of the
\* command matters: local and remote binaries, each with and without a
\* skeleton and the multi-device flag, double quotes in every field, a
\* missing binary and failing scripts.
LocalBinary == << "indi_a" >>
RemoteBinary == << "indi_a", At, "host" >>
QuotedLabel == << "A", Quote, "B" >>
CommandDrivers ==
  { Descriptor(QuotedLabel, b, s, m, "none") :
      b \in {LocalBinary, RemoteBinary}, s \in {NoSkeleton, << "s", Quote, "k" >>},
      m \in BOOLEAN }
  \cup { Descriptor(<< "A" >>, << "in", Quote, "di" >>, NoSkeleton, FALSE, "none") }
  \cup { Descriptor(<< "A" >>, NoBinary, NoSkeleton, FALSE, r) : r \in {"none", "ok"} }
  \cup { Descriptor(<< "A" >>, LocalBinary, NoSkeleton, FALSE, r) :
           r \in {"none", "ok", "prefail", "postfail"} }

Labels == { d.label : d \in Drivers \cup CommandDrivers } \cup { RemoteBinary }
NoDriver == Descriptor(<< >>, NoBinary, NoSkeleton, FALSE, "none")

\* The drivers handed to direct start_driver/stop_driver calls
CallDrivers ==
  { DeviceDriver(<< "A" >>, << "indi_a" >>, "none"),
    DeviceDriver(<< "D" >>, << "indi_d" >>, "postfail"),
    DeviceDriver(<< "E" >>, NoBinary, "none") }

\* The driver lists handed to start()
DriverLists ==
  { << >>,
    << DeviceDriver(<< "A" >>, << "indi_a" >>, "none") >>,
    << DeviceDriver(<< "B" >>, << "indi_b" >>, "ok"),
       DeviceDriver(<< "A" >>, << "indi_a" >>, "none") >>,
    << DeviceDriver(<< "C" >>, << "indi_c" >>, "prefail"),
       DeviceDriver(<< "D" >>, << "indi_d" >>, "postfail") >> }
\* A driver list in which the start of every driver but the last one fails:
\* a failing PreScript, an exception, a failing PostScript
BatchLists ==
  { << DeviceDriver(<< "C" >>, << "indi_c" >>, "prefail"),
       DeviceDriver(<< "F" >>, << "indi_f" >>, "raise"),
       DeviceDriver(<< "D" >>, << "indi_d" >>, "postfail"),
       DeviceDriver(<< "A" >>, << "indi_a" >>, "none") >> }
Handles == 1..MaxStarts

VARIABLES
  psutilInstalled,  \* whether "import psutil" succeeds in this installation
  async_cmd,        \* IndiServer.__async_cmd: None or the current handle
  port,             \* IndiServer.__port: NoPort until the first __run
  running_drivers,  \* IndiServer.__running_drivers: label -> driver or NoDriver
  fifo,             \* commands written to the FIFO since it was last recreated
  nstarts,          \* number of handles created so far
  finished,         \* AsyncSystemCommand.finished, per handle
  proc,             \* OS state of the handle's process group, per handle
  runPc,            \* position of the command thread in run(), per handle
  cmdPort,          \* the -p argument baked into the handle's command line
  wlist,            \* the driver queue as filled by start(), per worker
  widx,             \* how many drivers the worker has dequeued
  wpc,              \* position of the worker: none, loop, post, done
  call,             \* the caller's operation in progress
  callerPc,         \* the caller's position inside start()/stop()
  last,             \* outcome of the caller's last completed operation
  driverOps,        \* direct start_driver/stop_driver calls made so far
  xmldir,           \* the directory handed to DriverCollection(path)
  collection,       \* DriverCollection.drivers
  regLast,          \* outcome of the last operation that built or changed it
  answer,           \* result of the last lookup made on the collection
  regOps,           \* calls made so far that change the collection
  properties,       \* INDIClient.properties: device -> property name -> data
  listeners,        \* INDIClient.listeners of the client object in use
  dirty,            \* the names changed since the last drain, per device
  notified,         \* what the listeners were called with by the last event
  sent,             \* the commands handed to sendNewProperty so far
  handling,         \* the event whose handler is under way, if any
  clientLast,       \* outcome of the last event or call on the client
  clientOps,        \* events and calls on the client so far
  connections,      \* WebSocketManager.connections: device -> WebSockets
  scheduled,        \* send_event coroutines waiting in the event loop
  delivered,        \* the messages each WebSocket was sent
  formatted,        \* the last call of _format_number_value and its result
  db,               \* Database: the tables profile, driver and remote
  saved_profile,    \* AppState.saved_profile (the global of main.py)
  active_profile,   \* AppState.active_profile (the global of main.py)
  appPc,            \* the request handler the event loop is running
  awaiting,         \* the start_server request suspended in its await
  appLast,          \* the last request answered and its answer
  appOps,           \* requests made so far
  indi_client,      \* indi_client.indi_client: None or the INDIClient object
  instances,        \* INDIClient objects constructed so far
  connected,        \* INDIClient.connected of the object in use
  evt_listener_initialized,  \* the global of main.py
  tasks             \* start_client tasks created and not yet run

vars == << psutilInstalled, async_cmd, port, running_drivers, fifo, nstarts,
           finished, proc, runPc, cmdPort, wlist, widx, wpc, call, callerPc,
           last, driverOps, xmldir, collection, regLast, answer, regOps,
           properties, listeners, dirty, notified, sent, handling, clientLast,
           clientOps, connections, scheduled, delivered, formatted,
           db, saved_profile, active_profile, appPc, awaiting, appLast, appOps,
           indi_client, instances, connected, evt_listener_initialized, tasks >>

\* The state of the IndiServer and of its threads
svars == << psutilInstalled, async_cmd, port, running_drivers, fifo, nstarts,
            finished, proc, runPc, cmdPort, wlist, widx, wpc, call, callerPc,
            last, driverOps >>
\* The state of the DriverCollection
rvars == << xmldir, collection, regLast, answer, regOps >>
\* The state of the INDIClient
cvars == << properties, listeners, dirty, notified, sent, handling, clientLast,
            clientOps >>
\* The state of the WebSocketManager and of the event loop
bvars == << connections, scheduled, delivered >>
\* The state of the INDIClient, of its event bridge and of its formatter
pvars == << cvars, bvars, formatted >>
\* The global INDIClient of main.py and what main.py keeps about it
gvars == << indi_client, instances, connected, evt_listener_initialized, tasks >>
\* The state of the web application: the database, the application state
\* and the requests
avars == << db, saved_profile, active_profile, appPc, awaiting, appLast, appOps,
            gvars >>

hvars == << finished, proc, runPc, cmdPort >>
wvars == << wlist, widx, wpc >>

\* A directory that exists, with its files in the order os.listdir gives
Directory(files) == [exists |-> TRUE, files |-> files]
\* A path at which there is no directory
NoDirectory == [exists |-> FALSE, files |-> << >>]
\* No operation on the collection yet; no lookup made since it last changed
NoOperation ==
  [op |-> "none", exc |-> "none", arg |-> << >>, prev |-> "none", prevArg |-> << >>,
   before |-> 0]
NoAnswer == [op |-> "none"]

NoCall == [op |-> "none", port |-> NoPort, drivers |-> << >>]
NoRunning == [l \in Labels |-> NoDriver]

\* IndiServer.__init__
InitServer ==
  /\ psutilInstalled \in BOOLEAN
  /\ async_cmd = None
  /\ port = NoPort
  /\ running_drivers = NoRunning
  /\ fifo = << >>
  /\ nstarts = 0
  /\ finished = [h \in Handles |-> FALSE]
  /\ proc = [h \in Handles |-> "none"]
  /\ runPc = [h \in Handles |-> "unborn"]
  /\ cmdPort = [h \in Handles |-> NoPort]
  /\ wlist = [h \in Handles |-> << >>]
  /\ widx = [h \in Handles |-> 0]
  /\ wpc = [h \in Handles |-> "none"]
  /\ call = NoCall
  /\ callerPc = "idle"
  /\ last = [op |-> "none", exc |-> "none"]
  /\ driverOps = 0

\* No DriverCollection has been constructed yet
InitCollection ==
  /\ collection = << >>
  /\ regLast = NoOperation
  /\ answer = NoAnswer
  /\ regOps = 0


(* ----------------------- AsyncSystemCommand --------------------------- *)
\* A process group is alive while it runs, also after a signal was sent to
\* it and before the kernel has ended it.
Alive(h) == proc[h] \in {"running", "signalled"}

\* is_running(): not self.finished
cmd_is_running(h) == ~finished[h]

\* run() as it would be with the finally block reached before the wait
RunSpawnEffect_FinishedEarly(h, ok) ==
  /\ proc' = IF ok THEN [proc EXCEPT ![h] = "running"] ELSE proc
  /\ finished' = [finished EXCEPT ![h] = TRUE]
  /\ runPc' = [runPc EXCEPT ![h] = IF ok THEN "wait" ELSE "done"]

\* run(), first part: finished = False, then Popen.  Popen either creates the
\* process group or raises; on raise the except and finally blocks mark the
\* handle finished.
RunSpawnEffect(h, ok) ==
  IF ok
  THEN /\ proc' = [proc EXCEPT ![h] = "running"]
       /\ finished' = [finished EXCEPT ![h] = FALSE]
       /\ runPc' = [runPc EXCEPT ![h] = "wait"]
  ELSE /\ proc' = proc
       /\ finished' = [finished EXCEPT ![h] = TRUE]
       /\ runPc' = [runPc EXCEPT ![h] = "done"]

RunSpawn(h) ==
  /\ runPc[h] = "spawn"
  /\ \E ok \in BOOLEAN : RunSpawnEffect(h, ok)
  /\ UNCHANGED << psutilInstalled, async_cmd, port, running_drivers, fifo,
                  nstarts, cmdPort, wvars, call, callerPc, last, driverOps >>
  /\ UNCHANGED << rvars, pvars, avars >>

\* run(): self.process.wait() returns once the process has exited (and reaps
\* it); the two reader threads are joined next.
RunWait(h) ==
  /\ runPc[h] = "wait"
  /\ proc[h] = "exited"
  /\ proc' = [proc EXCEPT ![h] = "reaped"]
  /\ runPc' = [runPc EXCEPT ![h] = "readers"]
  /\ UNCHANGED << psutilInstalled, async_cmd, port, running_drivers, fifo,
                  nstarts, finished, cmdPort, wvars, call, callerPc, last,
                  driverOps >>
  /\ UNCHANGED << rvars, pvars, avars >>

\* run(): readers joined; finally: finished = True.
RunFinally(h) ==
  /\ runPc[h] = "readers"
  /\ finished' = [finished EXCEPT ![h] = TRUE]
  /\ runPc' = [runPc EXCEPT ![h] = "done"]
  /\ UNCHANGED << psutilInstalled, async_cmd, port, running_drivers, fifo,
                  nstarts, proc, cmdPort, wvars, call, callerPc, last,
                  driverOps >>
  /\ UNCHANGED << rvars, pvars, avars >>

\* The operating system: a server process exits, on its own or because a
\* signal was sent to it.
ProcExit(h) ==
  /\ Alive(h)
  /\ proc' = [proc EXCEPT ![h] = "exited"]
  /\ UNCHANGED << psutilInstalled, async_cmd, port, running_drivers, fifo,
                  nstarts, finished, runPc, cmdPort, wvars, call, callerPc,
                  last, driverOps >>
  /\ UNCHANGED << rvars, pvars, avars >>

\* terminate(): outcome and effect.
\*   if self.process and not self.finished:
\*       try: os.killpg(os.getpgid(self.process.pid), SIGTERM)
\*       except Exception as e: log; raise e
\*       finally: finished = True
\* getpgid fails when the process was already reaped by run()'s wait().
TerminateActs(h) == proc[h] # "none" /\ ~finished[h]
TerminateRaises(h) == TerminateActs(h) /\ proc[h] = "reaped"
TerminateProc(h) ==
  IF TerminateActs(h) /\ proc[h] = "running"
  THEN [proc EXCEPT ![h] = "signalled"] ELSE proc
\* terminate() as it would be with finished = True after the try block
\* instead of in a finally block
TerminateFinished_OnlyOnSuccess(h) ==
  IF TerminateActs(h) /\ proc[h] # "reaped"
  THEN [finished EXCEPT ![h] = TRUE] ELSE finished

TerminateFinished(h) ==
  IF TerminateActs(h) THEN [finished EXCEPT ![h] = TRUE] ELSE finished


(* ------------------------------ IndiServer ---------------------------- *)
\* port = getattr(self, '_IndiServer__port', INDI_PORT) when port is None
ResolvePort(p) == IF p # NoPort THEN p ELSE IF port # NoPort THEN port ELSE INDI_PORT

\* The process-table scan of is_running()/stop(): an indiserver process whose
\* command line carries "-p <p>".
ScanFinds(p) == \E h \in Handles : Alive(h) /\ cmdPort[h] = p

\* is_running(port): the results the call can produce.
\*   handle running                 -> True, psutil is not even imported
\*   import psutil fails            -> the except clause names psutil.Error,
\*                                     an unbound local: UnboundLocalError
\*   scan completes                 -> whether a process on the port was found
\*   scan raises psutil.Error       -> logged, False
\* (is_running as it would be without the check of the handle)
IsRunningOutcomes_NoHandleCheck(p) ==
  IF ~psutilInstalled THEN {"raise"}
  ELSE {"false"} \cup (IF ScanFinds(ResolvePort(p)) THEN {"true"} ELSE {})

IsRunningOutcomes(p) ==
  IF async_cmd # None /\ cmd_is_running(async_cmd) THEN {"true"}
  ELSE IF ~psutilInstalled THEN {"raise"}
  ELSE (IF ScanFinds(ResolvePort(p)) THEN {"true"} ELSE {"false"}) \cup {"false"}

\* Bookkeeping of the caller's completed operation: which one it was and the
\* exception that left it, if any.
Completed(op, exc) == [op |-> op, exc |-> exc]

\* get_running_drivers(): the dictionary itself
get_running_drivers == running_drivers

\* start(port, drivers), first statement: if self.is_running(port): self.stop(port)
Start(p, ds) ==
  /\ callerPc = "idle"
  /\ nstarts < MaxStarts
  /\ \E o \in IsRunningOutcomes(p) :
       CASE o = "raise" ->
              /\ last' = Completed("start", "UnboundLocalError")
              /\ UNCHANGED << call, callerPc >>
         [] o = "true" ->
              /\ call' = [op |-> "start", port |-> p, drivers |-> ds]
              /\ callerPc' = "stop_scan"
              /\ last' = last
         [] o = "false" ->
              /\ call' = [op |-> "start", port |-> p, drivers |-> ds]
              /\ callerPc' = "start_launch"
              /\ last' = last
  /\ UNCHANGED << psutilInstalled, async_cmd, port, running_drivers, fifo,
                  nstarts, hvars, wvars, driverOps >>
  /\ UNCHANGED << rvars, pvars, avars >>

\* (start() as it would be without the reset)
ResetRunning_Kept == running_drivers

\* self.__running_drivers = {}
ResetRunning == NoRunning

\* start(), after the stop: __clear_fifo(); __run(port); reset of the running
\* drivers; creation and start of the driver starter worker.
StartLaunch ==
  /\ callerPc = "start_launch"
  /\ LET h == nstarts + 1 IN
     /\ fifo' = << >>
     /\ port' = call.port
     /\ async_cmd' = h
     /\ nstarts' = h
     /\ runPc' = [runPc EXCEPT ![h] = "spawn"]
     /\ cmdPort' = [cmdPort EXCEPT ![h] = call.port]
     /\ running_drivers' = ResetRunning
     /\ wlist' = [wlist EXCEPT ![h] = call.drivers]
     /\ wpc' = [wpc EXCEPT ![h] = IF call.drivers # << >> THEN "loop" ELSE "none"]
  /\ call' = NoCall
  /\ callerPc' = "idle"
  /\ last' = Completed("start", "none")
  /\ UNCHANGED << psutilInstalled, finished, proc, widx, driverOps >>
  /\ UNCHANGED << rvars, pvars, avars >>

\* stop(port), entry: resolve the port.
Stop(p) ==
  /\ callerPc = "idle"
  /\ call' = [op |-> "stop", port |-> ResolvePort(p), drivers |-> << >>]
  /\ callerPc' = "stop_scan"
  /\ UNCHANGED << psutilInstalled, async_cmd, port, running_drivers, fifo,
                  nstarts, hvars, wvars, last, driverOps >>
  /\ UNCHANGED << rvars, pvars, avars >>

\* An exception leaves stop(): a stop() made by start() makes start() raise.
StopRaised(exc) ==
  /\ last' = Completed(call.op, exc)
  /\ call' = NoCall
  /\ callerPc' = "idle"

\* stop() returns: the caller goes on with start() or is done.
StopReturned ==
  IF call.op = "start"
  THEN /\ callerPc' = "start_launch"
       /\ UNCHANGED << call, last >>
  ELSE /\ callerPc' = "idle"
       /\ call' = NoCall
       /\ last' = Completed("stop", "none")

\* stop(), the process-table part.
\*   import psutil fails -> UnboundLocalError out of the except clause
\*   scan completes      -> proc.kill(); proc.wait() on every indiserver of the port
\*   psutil.Error        -> pkill -9 indiserver: SIGKILL to every indiserver
StopScan ==
  /\ callerPc = "stop_scan"
  /\ IF ~psutilInstalled
     THEN /\ StopRaised("UnboundLocalError")
          /\ proc' = proc
     ELSE /\ callerPc' = "stop_term"
          /\ UNCHANGED << call, last >>
          /\ \/ proc' = [h \in Handles |->
                          IF Alive(h) /\ cmdPort[h] = call.port
                          THEN "exited" ELSE proc[h]]
             \/ proc' = [h \in Handles |->
                          IF proc[h] = "running" THEN "signalled" ELSE proc[h]]
  /\ UNCHANGED << psutilInstalled, async_cmd, port, running_drivers, fifo,
                  nstarts, finished, runPc, cmdPort, wvars, driverOps >>
  /\ UNCHANGED << rvars, pvars, avars >>

\* stop(): try: if self.__async_cmd: terminate(); join()  except Exception: log
StopTerm ==
  /\ callerPc = "stop_term"
  /\ IF async_cmd = None
     THEN /\ StopReturned
          /\ UNCHANGED << proc, finished >>
     ELSE /\ proc' = TerminateProc(async_cmd)
          /\ finished' = TerminateFinished(async_cmd)
          /\ IF TerminateRaises(async_cmd)
             THEN StopReturned
             ELSE /\ callerPc' = "stop_join"
                  /\ UNCHANGED << call, last >>
  /\ UNCHANGED << psutilInstalled, async_cmd, port, running_drivers, fifo,
                  nstarts, runPc, cmdPort, wvars, driverOps >>
  /\ UNCHANGED << rvars, pvars, avars >>

\* stop(): self.__command_thread.join() returns when run() has ended.
StopJoin ==
  /\ callerPc = "stop_join"
  /\ runPc[async_cmd] = "done"
  /\ StopReturned
  /\ UNCHANGED << psutilInstalled, async_cmd, port, running_drivers, fifo,
                  nstarts, hvars, wvars, driverOps >>
  /\ UNCHANGED << rvars, pvars, avars >>

(* ------------------------- start_driver / stop_driver ------------------ *)
\* cmd.replace('"', '\\"'): a backslash is put before every double quote
RECURSIVE EscapeQuotes(_)
EscapeQuotes(s) ==
  IF s = << >> THEN << >>
  ELSE (IF Head(s) = Quote THEN << Backslash, Quote >> ELSE << Head(s) >>)
       \o EscapeQuotes(Tail(s))

\* (start_driver as it would be with the label flag added for every driver)
StartCommand_LabelAlways(d) ==
  EscapeQuotes(
    << "start " >> \o d.binary
    \o (IF d.skeleton # << >> THEN << " -s ", Quote >> \o d.skeleton \o << Quote >> ELSE << >>)
    \o << " -n ", Quote >> \o d.label \o << Quote >>)

\* The command start_driver writes to the FIFO:
\*   cmd = 'start ' + driver.binary
\*   if driver.skeleton: cmd += ' -s "%s"' % driver.skeleton
\*   if "@" not in driver.binary and not driver.mdpd: cmd += ' -n "%s"' % driver.label
\*   cmd = cmd.replace('"', '\\"')
StartCommand(d) ==
  LET cmd1 == << "start " >> \o d.binary
      cmd2 == IF d.skeleton # << >>
              THEN cmd1 \o << " -s ", Quote >> \o d.skeleton \o << Quote >>
              ELSE cmd1
      cmd3 == IF ~Contains(d.binary, At) /\ ~d.mdpd
              THEN cmd2 \o << " -n ", Quote >> \o d.label \o << Quote >>
              ELSE cmd2
  IN EscapeQuotes(cmd3)

\* The command stop_driver writes to the FIFO (no device_label given):
\*   cmd = 'stop ' + driver.binary
\*   if "@" not in driver.binary and not driver.mdpd: cmd += ' -n "%s"' % driver_label
\*   cmd = cmd.replace('"', '\\"')
StopCommand(d) ==
  LET cmd1 == << "stop " >> \o d.binary
      cmd2 == IF ~Contains(d.binary, At) /\ ~d.mdpd
              THEN cmd1 \o << " -n ", Quote >> \o d.label \o << Quote >>
              ELSE cmd1
  IN EscapeQuotes(cmd2)

\* (start_driver as it would be if a failed PreScript were only logged)
StartWrites_PreIgnored(d) == d.binary # NoBinary /\ d.rule # "raise"

\* start_driver reaches the FIFO write unless the binary is missing, the
\* PreDelay comparison raises or the PreScript fails.
StartWrites(d) == d.binary # NoBinary /\ d.rule \notin {"prefail", "raise"}
\* start_driver reaches self.__running_drivers[driver.label] = driver unless
\* it returned before or the PostScript fails.
StartRecords(d) == StartWrites(d) /\ d.rule # "postfail"
\* start_driver lets an exception out: pre_delay > 0 on a PreDelay that is
\* not a number.
StartRaises(d) == d.binary # NoBinary /\ d.rule = "raise"

\* (stop_driver as it would be without the try around driver.binary)
StopWrites_BinaryAssumed(d) == d.rule # "prefail"

\* stop_driver reaches the FIFO write unless the StoppingScript fails or the
\* binary is missing.
StopWrites(d) == d.rule # "prefail" /\ d.binary # NoBinary
\* stop_driver reaches del self.__running_drivers[driver.label] unless it
\* returned before or the StoppedScript fails.
StopDeletes(d) == StopWrites(d) /\ d.rule # "postfail"

\* The steps of start_driver that are executed for d, in the order of the
\* code: the delays and scripts of the rule that are run (a script that
\* fails has been run), the FIFO write, the dictionary update.
StartPhases(d) ==
  IF d.binary = NoBinary THEN << >>
  ELSE (IF d.rule \in {"ok", "prefail", "postfail"}
        THEN << "PreDelay", "PreScript" >> ELSE << >>)
       \o (IF StartWrites(d) THEN << "write" >> ELSE << >>)
       \o (IF StartWrites(d) /\ d.rule \in {"ok", "postfail"}
           THEN << "PostDelay", "PostScript" >> ELSE << >>)
       \o (IF StartRecords(d) THEN << "record" >> ELSE << >>)

\* The steps of stop_driver that are executed for d: the StoppingScript and
\* the StoppingDelay come before the binary is looked at.
StopPhases(d) ==
  (IF d.rule = "prefail" THEN << "StoppingScript" >>
   ELSE IF d.rule \in {"ok", "postfail"} THEN << "StoppingScript", "StoppingDelay" >>
   ELSE << >>)
  \o (IF StopWrites(d) THEN << "write" >> ELSE << >>)
  \o (IF StopWrites(d) /\ d.rule \in {"ok", "postfail"}
      THEN << "StoppedDelay", "StoppedScript" >> ELSE << >>)
  \o (IF StopDeletes(d) THEN << "delete" >> ELSE << >>)

\* A command written to the FIFO: the verb, the driver it was composed from,
\* the text written, and the thread that wrote it (0 the caller, w the worker
\* of start() number w).
FifoEntry(verb, d, by) ==
  [verb |-> verb, drv |-> d, by |-> by,
   cmd |-> IF verb = "start" THEN StartCommand(d) ELSE StopCommand(d)]

\* Bookkeeping of a completed start_driver/stop_driver call of the caller:
\* the exception that left it, if any, and the steps it executed.
CompletedCall(op, exc, ran) == [op |-> op, exc |-> exc, ran |-> ran]

\* start_driver(driver) called by the caller (the driver routes).
StartDriverCall(d) ==
  /\ callerPc = "idle"
  /\ driverOps < MaxDriverOps
  /\ driverOps' = driverOps + 1
  /\ fifo' = IF StartWrites(d) THEN Append(fifo, FifoEntry("start", d, 0)) ELSE fifo
  /\ running_drivers' = IF StartRecords(d)
                        THEN [running_drivers EXCEPT ![d.label] = d]
                        ELSE running_drivers
  /\ last' = CompletedCall("start_driver",
                           IF StartRaises(d) THEN "TypeError" ELSE "none",
                           StartPhases(d))
  /\ UNCHANGED << psutilInstalled, async_cmd, port, nstarts, hvars, wvars,
                  call, callerPc >>
  /\ UNCHANGED << rvars, pvars, avars >>

\* (stop_driver as it would be if it reset the dictionary the way start() does)
DeleteKey_WholeSet(running, label) == [l \in DOMAIN running |-> NoDriver]

\* del self.__running_drivers[label]
DeleteKey(running, label) == [running EXCEPT ![label] = NoDriver]

\* stop_driver(driver) called by the caller; del raises KeyError when the
\* label is not in the dictionary.
StopDriverCall(d) ==
  /\ callerPc = "idle"
  /\ driverOps < MaxDriverOps
  /\ driverOps' = driverOps + 1
  /\ fifo' = IF StopWrites(d) THEN Append(fifo, FifoEntry("stop", d, 0)) ELSE fifo
  /\ IF StopDeletes(d)
     THEN IF running_drivers[d.label] # NoDriver
          THEN /\ running_drivers' = DeleteKey(running_drivers, d.label)
               /\ last' = CompletedCall("stop_driver", "none", StopPhases(d))
          ELSE /\ running_drivers' = running_drivers
               /\ last' = CompletedCall("stop_driver", "KeyError", StopPhases(d))
     ELSE /\ running_drivers' = running_drivers
          /\ last' = CompletedCall("stop_driver", "none", StopPhases(d))
  /\ UNCHANGED << psutilInstalled, async_cmd, port, nstarts, hvars, wvars,
                  call, callerPc >>
  /\ UNCHANGED << rvars, pvars, avars >>

\* POST /api/drivers/restart/{label} for a driver the collection holds:
\* indi_server.stop_driver(driver) and then indi_server.start_driver(driver),
\* which is not reached when stop_driver raises.
RestartDriverCall(d) ==
  /\ callerPc = "idle"
  /\ driverOps < MaxDriverOps
  /\ driverOps' = driverOps + 1
  /\ LET stopped == IF StopWrites(d) THEN Append(fifo, FifoEntry("stop", d, 0)) ELSE fifo
         deleted == IF StopDeletes(d) THEN DeleteKey(running_drivers, d.label)
                    ELSE running_drivers
     IN IF StopDeletes(d) /\ running_drivers[d.label] = NoDriver
        THEN /\ fifo' = stopped
             /\ running_drivers' = running_drivers
             /\ last' = CompletedCall("restart_driver", "KeyError", StopPhases(d))
        ELSE /\ fifo' = IF StartWrites(d) THEN Append(stopped, FifoEntry("start", d, 0))
                        ELSE stopped
             /\ running_drivers' = IF StartRecords(d) THEN [deleted EXCEPT ![d.label] = d]
                                   ELSE deleted
             /\ last' = CompletedCall("restart_driver",
                                      IF StartRaises(d) THEN "TypeError" ELSE "none",
                                      StopPhases(d) \o StartPhases(d))
  /\ UNCHANGED << psutilInstalled, async_cmd, port, nstarts, hvars, wvars,
                  call, callerPc >>
  /\ UNCHANGED << rvars, pvars, avars >>

(* ------------------------ __driver_starter_worker ---------------------- *)
\* (a queue that hands out its newest element first)
QueueGet_Lifo(q, taken) == q[Len(q) - taken]

\* driver_queue.get_nowait(): the head of what is left of the queue
QueueGet(q, taken) == q[taken + 1]

\* Where the worker stands after start_driver returned for the driver it
\* dequeued as number taken: back in the loop, or at its end when
\* driver_queue.empty() holds.
WorkerLoop(q, taken) == IF taken < Len(q) THEN "loop" ELSE "done"

\* (a worker that gives up at the first exception: break)
WorkerExcept_Break(q, taken) == "done"

\* except Exception: the error is logged and the loop goes on (continue)
WorkerExcept(q, taken) == WorkerLoop(q, taken)

\* One pass of the loop up to the FIFO write of start_driver: dequeue, run
\* the pre-delay and PreScript, write the command, run the post-delay and
\* PostScript.
WorkerTake(w) ==
  /\ wpc[w] = "loop"
  /\ LET d == QueueGet(wlist[w], widx[w]) IN
     /\ widx' = [widx EXCEPT ![w] = widx[w] + 1]
     /\ fifo' = IF StartWrites(d)
                THEN Append(fifo, FifoEntry("start", d, w))
                ELSE fifo
     /\ wpc' = [wpc EXCEPT ![w] = IF StartRecords(d) THEN "post"
                                  ELSE IF StartRaises(d)
                                  THEN WorkerExcept(wlist[w], widx[w] + 1)
                                  ELSE WorkerLoop(wlist[w], widx[w] + 1)]
  /\ UNCHANGED << psutilInstalled, async_cmd, port, running_drivers, nstarts,
                  hvars, wlist, call, callerPc, last, driverOps >>
  /\ UNCHANGED << rvars, pvars, avars >>

\* The driver the worker is starting
WorkerDriver(w) == QueueGet(wlist[w], widx[w] - 1)

\* End of start_driver in the worker: the driver is recorded as running, and
\* the loop goes on or ends.
WorkerRecord(w) ==
  /\ wpc[w] = "post"
  /\ running_drivers' = [running_drivers EXCEPT ![WorkerDriver(w).label] = WorkerDriver(w)]
  /\ wpc' = [wpc EXCEPT ![w] = WorkerLoop(wlist[w], widx[w])]
  /\ UNCHANGED << psutilInstalled, async_cmd, port, fifo, nstarts, hvars,
                  wlist, widx, call, callerPc, last, driverOps >>
  /\ UNCHANGED << rvars, pvars, avars >>

\* wait_for_drivers_started(timeout) returns with the queue drained: the
\* worker of the last start() has ended (or there was none).
wait_for_drivers_started == async_cmd # None /\ wpc[async_cmd] \in {"none", "done"}

(* --------------------------- DriverCollection -------------------------- *)
\* number of parse_custom_drivers / clear_custom_drivers calls explored
MaxRegistryOps == 3

\* The characters of the labels, in code-point order
Alphabet == << "A", "B", "C" >>
\* ord(c)
Ord(c) == CHOOSE i \in 1..Len(Alphabet) : Alphabet[i] = c
\* a < b on str: the comparison list.sort makes on the labels
RECURSIVE StrLess(_, _)
StrLess(a, b) ==
  IF b = << >> THEN FALSE
  ELSE IF a = << >> THEN TRUE
  ELSE IF Head(a) = Head(b) THEN StrLess(Tail(a), Tail(b))
  ELSE Ord(Head(a)) < Ord(Head(b))
\* s.startswith(prefix)
StartsWith(s, prefix) == Len(prefix) <= Len(s) /\ SubSeq(s, 1, Len(prefix)) = prefix

\* A DeviceDriver as the collection reads it: name, label, binary, family,
\* custom and rule (version, skeleton and mdpd are stored and never read by it)
Entry(name, label, binary, family, custom) ==
  [name |-> name, label |-> label, binary |-> binary, family |-> family,
   custom |-> custom, rule |-> "none"]
\* An attribute or an element that the markup does not have
NoAttr == << "<absent>" >>
\* The result None of a lookup
NoEntry == Entry(NoAttr, NoAttr, NoAttr, NoAttr, FALSE)

\* Descriptor files.  A device element has a label attribute and a driver
\* element, which has a name attribute and the binary as its text; a devGroup
\* element has a group attribute and device elements; a file has a name
\* and, when its markup parses, devGroup elements.
Device(label, name, binary) ==
  [label |-> label, driver |-> [present |-> TRUE, name |-> name, text |-> binary]]
DeviceWithoutDriver(label) ==
  [label |-> label, driver |-> [present |-> FALSE, name |-> NoAttr, text |-> NoAttr]]
DevGroup(group, devices) == [group |-> group, devices |-> devices]
XmlFile(name, groups) == [name |-> name, parses |-> TRUE, groups |-> groups]
UnparsableFile == [name |-> << "broken", ".xml" >>, parses |-> FALSE, groups |-> << >>]

CcdFile ==
  XmlFile(<< "ccd", ".xml" >>,
    << DevGroup(<< "CCDs" >>, << Device(<< "A", "B" >>, << "ab" >>, << "indi_ab" >>),
                                 Device(<< "A" >>, << "a" >>, << "indi_a" >>) >>) >>)
MixedFile ==
  XmlFile(<< "mixed", ".xml" >>,
    << DevGroup(<< "Telescopes" >>, << Device(<< "B" >>, << "b" >>, << "indi_b" >>) >>),
       DevGroup(<< "CCDs" >>, << Device(<< "A", "C" >>, << "ac" >>, << "indi_ac" >>) >>) >>)
\* a file whose second device has no label
NoLabelFile ==
  XmlFile(<< "nolabel", ".xml" >>,
    << DevGroup(<< "Focusers" >>, << Device(<< "C" >>, << "c" >>, << "indi_c" >>),
                                     Device(NoAttr, << "x" >>, << "indi_x" >>) >>) >>)
\* a file whose devGroup has no group attribute
NoGroupFile ==
  XmlFile(<< "nogroup", ".xml" >>,
    << DevGroup(NoAttr, << Device(<< "C" >>, << "c" >>, << "indi_c" >>) >>) >>)
\* a file whose driver element has no name attribute
NoNameFile ==
  XmlFile(<< "noname", ".xml" >>,
    << DevGroup(<< "Focusers" >>, << Device(<< "C" >>, NoAttr, << "indi_c" >>) >>) >>)
\* a file with a device that has no driver element
NoDriverFile ==
  XmlFile(<< "nodriver", ".xml" >>,
    << DevGroup(<< "Focusers" >>, << DeviceWithoutDriver(<< "C" >>) >>) >>)
\* a property-skeleton file and a file that is no XML file
SkeletonFile ==
  XmlFile(<< "ccd", "_sk", ".xml" >>,
    << DevGroup(<< "CCDs" >>, << Device(<< "C" >>, << "c" >>, << "indi_c" >>) >>) >>)
TextFile == [name |-> << "readme", ".txt" >>, parses |-> FALSE, groups |-> << >>]

\* The directories a DriverCollection is constructed on
Directories ==
  { NoDirectory,
    Directory(<< >>),
    Directory(<< SkeletonFile, TextFile >>),
    Directory(<< UnparsableFile >>),
    Directory(<< NoGroupFile, NoNameFile >>),
    Directory(<< NoLabelFile >>),
    Directory(<< NoDriverFile >>),
    Directory(<< CcdFile >>),
    Directory(<< MixedFile, CcdFile >>),
    Directory(<< CcdFile, UnparsableFile, MixedFile >>),
    Directory(<< NoLabelFile, CcdFile >>),
    Directory(<< NoNameFile, NoGroupFile, MixedFile >>),
    Directory(<< CcdFile, NoDriverFile, MixedFile >>) }

\* fname.endswith('.xml') and '_sk' not in fname
IsDescriptorName(fname) ==
  /\ fname # << >> /\ fname[Len(fname)] = ".xml"
  /\ ~Contains(fname, "_sk")

\* The result of a parse: the drivers appended and the exception that ended
\* it, if any.
Parsed(drivers, exc) == [drivers |-> drivers, exc |-> exc]

\* for device in group.findall('device'): label = device.attrib['label'];
\* drv = device.find('driver'); name = drv.attrib['name']; ...; append
RECURSIVE ParseDevices(_, _)
ParseDevices(devices, family) ==
  IF devices = << >> THEN Parsed(<< >>, "none")
  ELSE LET device == Head(devices) IN
       IF device.label = NoAttr THEN Parsed(<< >>, "KeyError")
       ELSE IF ~device.driver.present THEN Parsed(<< >>, "AttributeError")
       ELSE IF device.driver.name = NoAttr THEN Parsed(<< >>, "KeyError")
       ELSE LET rest == ParseDevices(Tail(devices), family) IN
            Parsed(<< Entry(device.driver.name, device.label, device.driver.text,
                            family, FALSE) >> \o rest.drivers,
                   rest.exc)

\* for group in root.findall('devGroup'): family = group.attrib['group']; ...
RECURSIVE ParseGroups(_)
ParseGroups(groups) ==
  IF groups = << >> THEN Parsed(<< >>, "none")
  ELSE LET group == Head(groups) IN
       IF group.group = NoAttr THEN Parsed(<< >>, "KeyError")
       ELSE LET these == ParseDevices(group.devices, group.group) IN
            IF these.exc # "none" THEN these
            ELSE LET rest == ParseGroups(Tail(groups)) IN
                 Parsed(these.drivers \o rest.drivers, rest.exc)

\* tree = ET.parse(fname): ParseError on markup that does not parse
ParseFile(file) ==
  IF ~file.parses THEN Parsed(<< >>, "ParseError") ELSE ParseGroups(file.groups)

\* except KeyError ... except ET.ParseError: the exceptions of a file that
\* are logged, after which the loop goes on with the next file
Caught(exc) == exc \in {"KeyError", "ParseError"}

\* for fname in self.files: try: ... except KeyError ... except ET.ParseError.
\* The drivers a file appended before its exception stay in the list.
RECURSIVE ParseFiles(_)
ParseFiles(files) ==
  IF files = << >> THEN Parsed(<< >>, "none")
  ELSE LET this == ParseFile(Head(files)) IN
       IF this.exc # "none" /\ ~Caught(this.exc) THEN this
       ELSE LET rest == ParseFiles(Tail(files)) IN
            Parsed(this.drivers \o rest.drivers, rest.exc)

\* The place of x in a list sorted by label: behind every driver whose label
\* is not greater (list.sort is stable)
RECURSIVE InsertByLabel(_, _)
InsertByLabel(x, sorted) ==
  IF sorted = << >> THEN << x >>
  ELSE IF StrLess(x.label, Head(sorted).label) THEN << x >> \o sorted
  ELSE << Head(sorted) >> \o InsertByLabel(x, Tail(sorted))

\* self.drivers.sort(key=lambda x: x.label)
RECURSIVE SortedInto(_, _)
SortedInto(drivers, sorted) ==
  IF drivers = << >> THEN sorted
  ELSE SortedInto(Tail(drivers), InsertByLabel(Head(drivers), sorted))
SortByLabel(drivers) == SortedInto(drivers, << >>)

\* parse_drivers(): os.listdir raises FileNotFoundError when the directory
\* does not exist; an exception of a file that is not caught leaves the
\* function before the sort.
parse_drivers(dir) ==
  IF ~dir.exists THEN Parsed(<< >>, "FileNotFoundError")
  ELSE LET files == SelectSeq(dir.files, LAMBDA f : IsDescriptorName(f.name))
           done == ParseFiles(files)
       IN IF done.exc # "none" THEN done
          ELSE Parsed(SortByLabel(done.drivers), "none")

\* The custom drivers of the database: dictionaries with name, label, exec
\* and family
CustomDriver(name, label, exec, family) ==
  [name |-> name, label |-> label, exec |-> exec, family |-> family]
CustomLists ==
  { << CustomDriver(<< "c" >>, << "C" >>, << "/usr/bin/c" >>, << "Custom" >>) >>,
    << CustomDriver(<< "ab2" >>, << "A", "B" >>, << "/usr/bin/ab" >>, << "Custom" >>),
       CustomDriver(<< "abc" >>, << "A", "B", "C" >>, << "/usr/bin/abc" >>, << "CCDs" >>) >> }

\* parse_custom_drivers(drivers): one DeviceDriver with custom=True appended
\* per dictionary
RECURSIVE parse_custom_drivers(_, _)
parse_custom_drivers(drivers, customs) ==
  IF customs = << >> THEN drivers
  ELSE LET custom == Head(customs) IN
       parse_custom_drivers(
         Append(drivers, Entry(custom.name, custom.label, custom.exec, custom.family, TRUE)),
         Tail(customs))

\* (clear_custom_drivers as it would be if it removed the last driver only)
clear_custom_drivers_Last(drivers) ==
  IF drivers # << >> /\ drivers[Len(drivers)].custom
  THEN SubSeq(drivers, 1, Len(drivers) - 1) ELSE drivers

\* clear_custom_drivers(): filter(lambda driver: driver.custom is not True, ...)
clear_custom_drivers(drivers) == SelectSeq(drivers, LAMBDA driver : driver.custom # TRUE)

\* for driver in self.drivers: if driver.label == label: return driver
RECURSIVE ExactMatch(_, _)
ExactMatch(drivers, label) ==
  IF drivers = << >> THEN NoEntry
  ELSE IF Head(drivers).label = label THEN Head(drivers)
  ELSE ExactMatch(Tail(drivers), label)

\* for driver in self.drivers: if label.startswith(driver.label): return driver
RECURSIVE PartialMatch(_, _)
PartialMatch(drivers, label) ==
  IF drivers = << >> THEN NoEntry
  ELSE IF StartsWith(label, Head(drivers).label) THEN Head(drivers)
  ELSE PartialMatch(Tail(drivers), label)

\* (by_label as it would be with the partial match tried first)
by_label_PartialFirst(drivers, label) ==
  IF PartialMatch(drivers, label) # NoEntry THEN PartialMatch(drivers, label)
  ELSE ExactMatch(drivers, label)

\* by_label(label): the exact match first, the partial match second
by_label(drivers, label) ==
  IF ExactMatch(drivers, label) # NoEntry THEN ExactMatch(drivers, label)
  ELSE PartialMatch(drivers, label)

\* (get_families as it would be if a family kept only its newest label)
AddToFamily_Replace(families, drv) ==
  (drv.family :> << drv.label >>) @@ families

\* families[drv.family].append(drv.label), or families[drv.family] = [drv.label]
AddToFamily(families, drv) ==
  IF drv.family \in DOMAIN families
  THEN [families EXCEPT ![drv.family] = Append(@, drv.label)]
  ELSE (drv.family :> << drv.label >>) @@ families

\* get_families(): one pass over the drivers
RECURSIVE FamiliesFrom(_, _)
FamiliesFrom(drivers, families) ==
  IF drivers = << >> THEN families
  ELSE FamiliesFrom(Tail(drivers), AddToFamily(families, Head(drivers)))
get_families(drivers) == FamiliesFrom(drivers, [f \in {} |-> << >>])

\* The position of the driver that by_label returns, 0 when it returns None
RECURSIVE ExactMatchAt(_, _, _)
ExactMatchAt(drivers, label, i) ==
  IF i > Len(drivers) THEN 0
  ELSE IF drivers[i].label = label THEN i
  ELSE ExactMatchAt(drivers, label, i + 1)
RECURSIVE PartialMatchAt(_, _, _)
PartialMatchAt(drivers, label, i) ==
  IF i > Len(drivers) THEN 0
  ELSE IF StartsWith(label, drivers[i].label) THEN i
  ELSE PartialMatchAt(drivers, label, i + 1)
by_label_at(drivers, label) ==
  IF ExactMatchAt(drivers, label, 1) # 0 THEN ExactMatchAt(drivers, label, 1)
  ELSE PartialMatchAt(drivers, label, 1)

\* A rule: a dictionary, known here by the name id, whose Driver key holds a
\* label, the empty text, or is missing (NoAttr)
Rule(id, driver) == [id |-> id, Driver |-> driver]
\* The argument of apply_rules: a list of rules, or None
Rules(list) == [given |-> TRUE, list |-> list]
NoRules == [given |-> FALSE, list |-> << >>]
RuleLists ==
  { NoRules,
    Rules(<< >>),
    Rules(<< Rule("r1", << "A" >>) >>),
    Rules(<< Rule("r1", << "A", "B", "C" >>) >>),
    Rules(<< Rule("r1", << "B" >>), Rule("r2", NoAttr), Rule("r3", << "B" >>) >>),
    Rules(<< Rule("r1", << >>), Rule("r2", << "C", "A" >>) >>) }

\* if driver_label: (neither None nor the empty text)
Truthy(text) == text # NoAttr /\ text # << >>

\* (one rule as it would be applied if only a driver with exactly that label
\* were looked for)
ApplyRule_ExactOnly(drivers, rule) ==
  IF Truthy(rule.Driver) /\ ExactMatchAt(drivers, rule.Driver, 1) # 0
  THEN [drivers EXCEPT ![ExactMatchAt(drivers, rule.Driver, 1)].rule = rule.id]
  ELSE drivers

\* driver_label = rule.get('Driver'); if driver_label: driver = by_label(..);
\* if driver: driver.rule = rule
ApplyRule(drivers, rule) ==
  IF Truthy(rule.Driver) /\ by_label_at(drivers, rule.Driver) # 0
  THEN [drivers EXCEPT ![by_label_at(drivers, rule.Driver)].rule = rule.id]
  ELSE drivers

\* for rule in rules
RECURSIVE ApplyEach(_, _)
ApplyEach(drivers, list) ==
  IF list = << >> THEN drivers
  ELSE ApplyEach(ApplyRule(drivers, Head(list)), Tail(list))

\* apply_rules(rules): if not rules: return
apply_rules(drivers, rules) ==
  IF ~rules.given \/ rules.list = << >> THEN drivers
  ELSE ApplyEach(drivers, rules.list)

\* The labels looked up: labels of drivers, labels with something appended,
\* a label no driver has a prefix of
QueryLabels ==
  { << "A" >>, << "A", "B" >>, << "B" >>, << "A", "C" >>, << "A", "A" >>,
    << "A", "B", "C" >>, << "A", "B", "A" >>, << "B", "C" >>, << "C", "A" >> }

\* Bookkeeping of an operation that built or changed the collection: its
\* name, the exception that left it, its argument, the operation made before
\* it with its argument, and the length the list had when it began.
Operation(op, exc, arg) ==
  [op |-> op, exc |-> exc, arg |-> arg, prev |-> regLast.op, prevArg |-> regLast.arg,
   before |-> Len(collection)]

\* A DriverCollection exists: its constructor has returned
Built == regLast.op # "none" /\ regLast.exc = "none"

\* collection = DriverCollection(path): drivers = [], files = [], parse_drivers().
\* When parse_drivers raises there is no collection object.
DriverCollectionInit ==
  /\ regLast.op = "none"
  /\ LET done == parse_drivers(xmldir) IN
     /\ collection' = IF done.exc = "none" THEN done.drivers ELSE << >>
     /\ regLast' = Operation("DriverCollection", done.exc, << >>)
  /\ answer' = NoAnswer
  /\ UNCHANGED << xmldir, regOps >>
  /\ UNCHANGED << svars, pvars, avars >>

\* collection.parse_custom_drivers(customs)
ParseCustomDrivers(customs) ==
  /\ Built
  /\ regOps < MaxRegistryOps
  /\ regOps' = regOps + 1
  /\ collection' = parse_custom_drivers(collection, customs)
  /\ regLast' = Operation("parse_custom_drivers", "none", customs)
  /\ answer' = NoAnswer
  /\ UNCHANGED xmldir
  /\ UNCHANGED << svars, pvars, avars >>

\* collection.clear_custom_drivers()
ClearCustomDrivers ==
  /\ Built
  /\ regOps < MaxRegistryOps
  /\ regOps' = regOps + 1
  /\ collection' = clear_custom_drivers(collection)
  /\ regLast' = Operation("clear_custom_drivers", "none", << >>)
  /\ answer' = NoAnswer
  /\ UNCHANGED xmldir
  /\ UNCHANGED << svars, pvars, avars >>

\* collection.apply_rules(rules)
ApplyRules(rules) ==
  /\ Built
  /\ regOps < MaxRegistryOps
  /\ regOps' = regOps + 1
  /\ collection' = apply_rules(collection, rules)
  /\ regLast' = Operation("apply_rules", "none", rules.list)
  /\ answer' = NoAnswer
  /\ UNCHANGED xmldir
  /\ UNCHANGED << svars, pvars, avars >>

\* collection.by_label(label)
ByLabel(label) ==
  /\ Built
  /\ answer' = [op |-> "by_label", arg |-> label, ret |-> by_label(collection, label)]
  /\ UNCHANGED << xmldir, collection, regLast, regOps >>
  /\ UNCHANGED << svars, pvars, avars >>

\* collection.get_families()
GetFamilies ==
  /\ Built
  /\ answer' = [op |-> "get_families", arg |-> << >>, ret |-> get_families(collection)]
  /\ UNCHANGED << xmldir, collection, regLast, regOps >>
  /\ UNCHANGED << svars, pvars, avars >>

(* ----------------------------- number texts ---------------------------- *)
\* A str holding a number is a sequence of characters.  Texts with an
\* exponent, blanks or underscores are not among the inputs.
Digits == << "0", "1", "2", "3", "4", "5", "6", "7", "8", "9" >>
IsDigit(c) == \E i \in 1..Len(Digits) : Digits[i] = c
DigitValue(c) == (CHOOSE i \in 1..Len(Digits) : Digits[i] = c) - 1
AllDigits(s) == \A i \in 1..Len(s) : IsDigit(s[i])
\* int(s) for a text of digits ("" counts 0 here)
RECURSIVE DigitsValue(_, _)
DigitsValue(s, acc) ==
  IF s = << >> THEN acc ELSE DigitsValue(Tail(s), 10 * acc + DigitValue(Head(s)))

\* A float is kept as a sign and a magnitude counted in units of 1/Scale;
\* the inputs have at most FractionDigits digits after the point.
FractionDigits == 7
Scale == 10 ^ FractionDigits
Float(kind, neg, units) == [exc |-> "none", kind |-> kind, neg |-> neg, units |-> units]
Raised(exc) == [exc |-> exc, kind |-> "none", neg |-> FALSE, units |-> 0]

\* The position of the first point of a text, 0 when it has none
IndexOfDot(s) ==
  IF \E i \in 1..Len(s) : s[i] = "."
  THEN CHOOSE i \in 1..Len(s) : s[i] = "." /\ \A j \in 1..(i - 1) : s[j] # "."
  ELSE 0
\* The digits after the point, filled with zeros up to FractionDigits
RECURSIVE PadRight(_)
PadRight(frac) ==
  IF Len(frac) >= FractionDigits THEN SubSeq(frac, 1, FractionDigits)
  ELSE PadRight(Append(frac, "0"))

\* float(text): a sign, then inf, nan, or digits with at most one point and
\* at least one digit; anything else raises ValueError
float(text) ==
  LET neg  == text # << >> /\ Head(text) = "-"
      body == IF text # << >> /\ Head(text) \in {"-", "+"} THEN Tail(text) ELSE text
      dot  == IndexOfDot(body)
      ip   == IF dot = 0 THEN body ELSE SubSeq(body, 1, dot - 1)
      fp   == IF dot = 0 THEN << >> ELSE SubSeq(body, dot + 1, Len(body))
  IN IF body = << "i", "n", "f" >> THEN Float("inf", neg, 0)
     ELSE IF body = << "n", "a", "n" >> THEN Float("nan", neg, 0)
     ELSE IF AllDigits(ip) /\ AllDigits(fp) /\ Len(ip) + Len(fp) > 0
          THEN Float("finite", neg, DigitsValue(ip, 0) * Scale + DigitsValue(PadRight(fp), 0))
          ELSE Raised("ValueError")

\* The values a caller passes: a str, or None
Str(text) == [type |-> "str", text |-> text]
PyNone == [type |-> "NoneType", text |-> << >>]
\* float(value): TypeError when the value is neither a str nor a number
ToFloat(value) == IF value.type = "str" THEN float(value.text) ELSE Raised("TypeError")

(* ------------------------------- INDIClient ---------------------------- *)
MaxClientOps == 3

Devices == { "ccd", "mount" }
\* The device name newMessage uses for a message that names no device
ServerName == "Server"
\* The names of the elements every property of the catalogue has, and a
\* name none has
ElementNames == { "X", "Y" }
UnknownElement == "Z"

\* property_data as _convert_property_to_dict builds it: the device, the
\* name, the type and the permission, the property state (which stands here
\* for everything an update changes: state, values, formatted values) and
\* the names of the elements
Property(device, name, type, perm, state) ==
  [device |-> device, name |-> name, type |-> type, perm |-> perm, state |-> state,
   elements |-> ElementNames]
\* The properties the server defines for a device.  CONNECTION, which makes
\* newProperty start the auto-connect timer, is not among them.
Catalogue ==
  [ CCD_EXPOSURE |-> [type |-> "number", perm |-> "rw"],
    CCD_COOLER   |-> [type |-> "switch", perm |-> "rw"],
    CCD_INFO     |-> [type |-> "number", perm |-> "ro"],
    UPLOAD_DIR   |-> [type |-> "text",   perm |-> "wo"],
    CCD1         |-> [type |-> "blob",   perm |-> "rw"],
    RAW_VECTOR   |-> [type |-> "indi_unknown", perm |-> "rw"] ]
PropertyNames == DOMAIN Catalogue
\* The PyIndi property an event carries
Prop(device, name, state) ==
  Property(device, name, Catalogue[name].type, Catalogue[name].perm, state)
\* The properties that are defined, updated and deleted while the model is
\* followed event by event
EventNames == { "CCD_EXPOSURE", "CCD_COOLER" }
EventStates == { "idle", "ok" }

\* The data argument of a notification: None, a property, the name of a
\* deleted property, a message
NoData == [kind |-> "None"]
Deleted(name) == [kind |-> "deleted", name |-> name]
Message(device) == [kind |-> "message", device |-> device]
\* What a lookup of a property returns when there is none
NoProperty == [kind |-> "None"]

NoDevices == [d \in {} |-> << >>]
NoHandling == [op |-> "none"]
ClientOp(op, device, name, known, result, exc) ==
  [op |-> op, device |-> device, name |-> name, known |-> known, result |-> result,
   exc |-> exc, names |-> {}, elements |-> << >>]
NoClientOp == ClientOp("none", "", "", FALSE, "", "none")

\* INDIClient.__init__, with no listener registered, and the events that
\* have brought the model to props
InitClientWith(props) ==
  /\ properties = props
  /\ listeners = << >>
  /\ dirty = [d \in Devices |-> {}]
  /\ notified = << >>
  /\ sent = << >>
  /\ handling = NoHandling
  /\ clientLast = NoClientOp
  /\ clientOps = 0
InitClient == InitClientWith(NoDevices)

\* device_name in self.properties and prop_name in self.properties[device_name]
Known(props, device, name) == device \in DOMAIN props /\ name \in DOMAIN props[device]

\* self.properties.get(device_name, {})
get_device_properties(props, device) ==
  IF device \in DOMAIN props THEN props[device] ELSE [n \in {} |-> NoProperty]

\* get_property(device_name, property_name)
get_property(props, device, name) ==
  IF name \in DOMAIN get_device_properties(props, device)
  THEN get_device_properties(props, device)[name]
  ELSE NoProperty

\* self.properties[device_name][prop_name] = property_data, the device
\* entry being created when it is not there
StoreProperty(props, device, name, data) ==
  [d \in DOMAIN props \cup {device} |->
     IF d = device
     THEN [n \in DOMAIN get_device_properties(props, device) \cup {name} |->
             IF n = name THEN data ELSE props[device][n]]
     ELSE props[d]]

\* (updateProperty as it would be without the look-up of the property)
UpdateApplies_Always(props, device, name) == TRUE

\* updateProperty: if device_name in self.properties and prop_name in
\* self.properties[device_name]
UpdateApplies(props, device, name) == Known(props, device, name)

\* (removeProperty as it would be if it dropped a device left without
\* properties)
DeleteProperty_DropsEmptyDevice(props, device, name) ==
  IF ~Known(props, device, name) THEN props
  ELSE IF DOMAIN props[device] = {name} THEN [d \in DOMAIN props \ {device} |-> props[d]]
  ELSE [props EXCEPT ![device] = [n \in DOMAIN props[device] \ {name} |-> props[device][n]]]

\* del self.properties[device_name][prop_name], when it is there
DeleteProperty(props, device, name) ==
  IF Known(props, device, name)
  THEN [props EXCEPT ![device] = [n \in DOMAIN props[device] \ {name} |-> props[device][n]]]
  ELSE props

\* (removeDevice as it would be if it deleted the properties of the device
\* one by one)
DeleteDevice_Piecewise(props, device) ==
  IF device \notin DOMAIN props THEN props
  ELSE IF DOMAIN props[device] = {} THEN [d \in DOMAIN props \ {device} |-> props[d]]
  ELSE LET n == CHOOSE n \in DOMAIN props[device] : TRUE IN
       [props EXCEPT ![device] = [m \in DOMAIN props[device] \ {n} |-> props[device][m]]]

\* if device_name in self.properties: del self.properties[device_name]
DeleteDevice(props, device) == [d \in DOMAIN props \ {device} |-> props[d]]

\* A call of a listener
Notification(event, device, data) == [event |-> event, device |-> device, data |-> data]
\* indi_event_listener: if not data: return; otherwise the send_event
\* coroutine is handed to the event loop
Forwarded(note) == IF note.data = NoData THEN << >> ELSE << note >>
\* _notify_listeners(event_type, device, data): every registered listener is
\* called
RECURSIVE ForwardedBy(_, _)
ForwardedBy(ls, note) ==
  IF ls = << >> THEN << >> ELSE Forwarded(note) \o ForwardedBy(Tail(ls), note)
Notify(event, device, data) ==
  /\ notified' = << Notification(event, device, data) >>
  /\ scheduled' = scheduled \o ForwardedBy(listeners, Notification(event, device, data))
\* A handler that returns without notifying
NotifyNobody ==
  /\ notified' = << >>
  /\ scheduled' = scheduled

\* The dirty set the poll endpoint drains.  indi_client.py defines neither
\* the set nor get_dirty_properties; they are modelled as the specification
\* of the client describes them.
\* The dirty names of a device after a change of one of its properties
MarkDirty(d, device, name) == [d EXCEPT ![device] = @ \cup {name}]
\* get_dirty_properties(device): the names changed since the last drain
get_dirty_properties(d, device) == d[device]
\* The dirty names once they were drained
Drained(d, device) == [d EXCEPT ![device] = {}]

\* No handler of the PyIndi thread is under way, and the bound on the
\* events and calls is not reached
Idle == handling = NoHandling /\ clientOps < MaxClientOps

\* newDevice(device)
NewDevice(device) ==
  /\ Idle
  /\ clientOps' = clientOps + 1
  /\ Notify("device_added", device, NoData)
  /\ clientLast' = ClientOp("newDevice", device, "", FALSE, "", "none")
  /\ UNCHANGED << properties, listeners, dirty, sent, handling >>
  /\ UNCHANGED << svars, rvars, connections, delivered, formatted, avars >>

\* newProperty(prop)
NewProperty(prop) ==
  /\ Idle
  /\ clientOps' = clientOps + 1
  /\ properties' = StoreProperty(properties, prop.device, prop.name, prop)
  /\ dirty' = MarkDirty(dirty, prop.device, prop.name)
  /\ Notify("property_defined", prop.device, prop)
  /\ clientLast' = ClientOp("newProperty", prop.device, prop.name,
                            Known(properties, prop.device, prop.name), "", "none")
  /\ UNCHANGED << listeners, sent, handling >>
  /\ UNCHANGED << svars, rvars, connections, delivered, formatted, avars >>

\* updateProperty(prop)
UpdateProperty(prop) ==
  /\ Idle
  /\ clientOps' = clientOps + 1
  /\ IF UpdateApplies(properties, prop.device, prop.name)
     THEN /\ properties' = StoreProperty(properties, prop.device, prop.name, prop)
          /\ dirty' = MarkDirty(dirty, prop.device, prop.name)
          /\ Notify("property_updated", prop.device, prop)
     ELSE /\ properties' = properties
          /\ dirty' = dirty
          /\ NotifyNobody
  /\ clientLast' = ClientOp("updateProperty", prop.device, prop.name,
                            Known(properties, prop.device, prop.name), "", "none")
  /\ UNCHANGED << listeners, sent, handling >>
  /\ UNCHANGED << svars, rvars, connections, delivered, formatted, avars >>

\* removeProperty(prop)
RemoveProperty(device, name) ==
  /\ Idle
  /\ clientOps' = clientOps + 1
  /\ properties' = DeleteProperty(properties, device, name)
  /\ IF Known(properties, device, name)
     THEN Notify("property_deleted", device, Deleted(name))
     ELSE NotifyNobody
  /\ clientLast' = ClientOp("removeProperty", device, name,
                            Known(properties, device, name), "", "none")
  /\ UNCHANGED << listeners, dirty, sent, handling >>
  /\ UNCHANGED << svars, rvars, connections, delivered, formatted, avars >>

\* removeDevice(device), up to the deletion of the device entry.  Other
\* threads read the model before the handler goes on.
RemoveDeviceDelete(device) ==
  /\ Idle
  /\ clientOps' = clientOps + 1
  /\ properties' = DeleteDevice(properties, device)
  /\ handling' = [op |-> "removeDevice", device |-> device,
                  had |-> DOMAIN get_device_properties(properties, device)]
  /\ UNCHANGED << listeners, dirty, notified, sent, clientLast >>
  /\ UNCHANGED << svars, rvars, bvars, formatted, avars >>

\* removeDevice(device), from the deletion on: the listeners are notified
RemoveDeviceNotify ==
  /\ handling # NoHandling
  /\ handling' = NoHandling
  /\ Notify("device_deleted", handling.device, NoData)
  /\ clientLast' = [ClientOp("removeDevice", handling.device, "", handling.had # {}, "", "none")
                      EXCEPT !.names = handling.had]
  /\ UNCHANGED << properties, listeners, dirty, sent, clientOps >>
  /\ UNCHANGED << svars, rvars, connections, delivered, formatted, avars >>

\* newMessage(device, message_id)
NewMessage(device) ==
  /\ Idle
  /\ clientOps' = clientOps + 1
  /\ Notify("message", device, Message(device))
  /\ clientLast' = ClientOp("newMessage", device, "", FALSE, "", "none")
  /\ UNCHANGED << properties, listeners, dirty, sent, handling >>
  /\ UNCHANGED << svars, rvars, connections, delivered, formatted, avars >>

\* client.get_dirty_properties(device), called by the poll endpoint from
\* another thread than the handlers
GetDirtyProperties(device) ==
  /\ clientOps < MaxClientOps
  /\ clientOps' = clientOps + 1
  /\ dirty' = Drained(dirty, device)
  /\ clientLast' = [ClientOp("get_dirty_properties", device, "", FALSE, "", "none")
                      EXCEPT !.names = get_dirty_properties(dirty, device)]
  /\ UNCHANGED << properties, listeners, notified, sent, handling >>
  /\ UNCHANGED << svars, rvars, bvars, formatted, avars >>

(* ------------------------------ set_property --------------------------- *)
MaxWrites == 2

\* The texts passed as values
Txt15 == << "1", ".", "5" >>
TxtMinus == << "-", "0", ".", "2", "5" >>
TxtAbc == << "a", "b", "c" >>
TxtOn == << "O", "n" >>
TxtOFF == << "O", "F", "F" >>
TxtMaybe == << "M", "a", "y", "b", "e" >>
\* ['On', 'Off', 'ON', 'OFF']
SwitchSpellings == { << "O", "n" >>, << "O", "f", "f" >>, << "O", "N" >>, << "O", "F", "F" >> }

\* The elements argument: a dictionary, in the order of its items
Item(name, value) == [name |-> name, value |-> value]
ElementDicts ==
  { << >>,
    << Item("X", Str(Txt15)) >>,
    << Item("X", Str(Txt15)), Item("Y", Str(TxtMinus)) >>,
    << Item("X", Str(TxtAbc)) >>,
    << Item("X", Str(Txt15)), Item("Y", Str(TxtAbc)) >>,
    << Item("X", PyNone) >>,
    << Item("X", Str(TxtAbc)), Item("Y", PyNone) >>,
    << Item("X", Str(TxtOn)), Item("Y", Str(TxtOFF)) >>,
    << Item("X", Str(TxtMaybe)) >>,
    << Item("X", Str(TxtOn)), Item(UnknownElement, Str(TxtMaybe)) >>,
    << Item(UnknownElement, Str(Txt15)), Item("X", Str(TxtAbc)) >> }
\* A property name the catalogue does not have
UnknownProperty == "NO_SUCH_VECTOR"

\* if prop_type.startswith('indi_'): prop_type = prop_type[5:]
NormalType(type) == IF type = "indi_unknown" THEN "unknown" ELSE type

\* for elem_name in elements: if elem_name not in prop.get('elements', {})
ElementsExist(prop, elements) ==
  \A i \in 1..Len(elements) : elements[i].name \in prop.elements

\* The number branch: float(value) for every item in turn; ValueError gives
\* invalid_value, any other exception leaves set_property
RECURSIVE CheckNumbers(_)
CheckNumbers(elements) ==
  IF elements = << >> THEN "ok"
  ELSE IF ToFloat(Head(elements).value).exc = "ValueError" THEN "invalid_value"
  ELSE IF ToFloat(Head(elements).value).exc # "none" THEN ToFloat(Head(elements).value).exc
  ELSE CheckNumbers(Tail(elements))

\* The switch branch: if value not in ['On', 'Off', 'ON', 'OFF']
RECURSIVE CheckSwitches(_)
CheckSwitches(elements) ==
  IF elements = << >> THEN "ok"
  ELSE IF Head(elements).value.type = "str" /\ Head(elements).value.text \in SwitchSpellings
       THEN CheckSwitches(Tail(elements))
  ELSE "invalid_value"

\* The exceptions that can leave the validation
Exceptions == { "TypeError" }

\* set_property up to the point where the message is built: the error type
\* returned, the exception raised, or ok
Validate(prop, elements) ==
  IF prop = NoProperty THEN "property_not_found"
  ELSE IF prop.perm \notin { "rw", "wo" } THEN "permission_denied"
  ELSE IF ~ElementsExist(prop, elements) THEN "element_not_found"
  ELSE IF NormalType(prop.type) = "text" THEN "ok"
  ELSE IF NormalType(prop.type) = "number" THEN CheckNumbers(elements)
  ELSE IF NormalType(prop.type) = "switch" THEN CheckSwitches(elements)
  ELSE "unsupported_type"

\* What PyIndi does with a validated command: it is sent; getDevice or
\* getProperty returns nothing; or an exception is raised, before or after
\* the command went out
PyIndiOutcomes == { "sent", "no_device", "no_property", "raised_unsent", "raised_sent" }
SendResult(outcome) ==
  CASE outcome = "sent" -> "success"
    [] outcome = "no_device" -> "device_not_found"
    [] outcome = "no_property" -> "property_not_found"
    [] OTHER -> "communication_error"

\* (set_property as it would be if the message were sent element by element
\* while the values are still being checked)
Transmits_WhileChecking(validation, outcome) ==
  validation \in { "ok", "invalid_value" } /\ outcome \in { "sent", "raised_sent" }

\* sendNewProperty is reached only after the whole validation
Transmits(validation, outcome) ==
  validation = "ok" /\ outcome \in { "sent", "raised_sent" }

Command(device, name, elements) == [device |-> device, name |-> name, elements |-> elements]

\* set_property(device_name, property_name, elements)
SetProperty(device, name, elements) ==
  /\ clientOps < MaxWrites
  /\ clientOps' = clientOps + 1
  /\ LET prop == get_property(properties, device, name)
         validation == Validate(prop, elements)
     IN \E outcome \in PyIndiOutcomes :
          /\ sent' = IF Transmits(validation, outcome)
                     THEN Append(sent, Command(device, name, elements))
                     ELSE sent
          /\ clientLast' =
               [ClientOp("set_property", device, name, prop # NoProperty,
                         IF validation = "ok" THEN SendResult(outcome)
                         ELSE IF validation \in Exceptions THEN ""
                         ELSE validation,
                         IF validation \in Exceptions THEN validation ELSE "none")
                  EXCEPT !.elements = elements]
  /\ UNCHANGED << properties, listeners, dirty, notified, handling >>
  /\ UNCHANGED << svars, rvars, bvars, formatted, avars >>

\* The model once the server has defined every property of the catalogue
\* for the device
RECURSIVE DefineAll(_, _, _)
DefineAll(props, device, names) ==
  IF names = {} THEN props
  ELSE LET n == CHOOSE n \in names : TRUE IN
       DefineAll(StoreProperty(props, device, n, Prop(device, n, "idle")), device, names \ {n})

(* --------------------------- WebSocketManager -------------------------- *)
WebSockets == { "ws1", "ws2" }
\* What a WebSocket subscribes to: a device, or the name messages of the
\* server carry
Subjects == Devices \cup { ServerName }

\* WebSocketManager.__init__ and an idle event loop
InitBridge ==
  /\ connections = [d \in Subjects |-> {}]
  /\ scheduled = << >>
  /\ delivered = [w \in WebSockets |-> << >>]

\* create_indi_event_listener(indi_client, event_loop), which main.py calls
\* once
CreateIndiEventListener ==
  /\ listeners = << >>
  /\ listeners' = Append(listeners, "indi_event_listener")
  /\ UNCHANGED << properties, dirty, notified, sent, handling, clientLast, clientOps >>
  /\ UNCHANGED << svars, rvars, bvars, formatted, avars >>

\* manager.connect(websocket, device_name), from the endpoint of a WebSocket
\* that was just opened
Connect(websocket, device) ==
  /\ \A d \in Subjects : websocket \notin connections[d]
  /\ connections' = [connections EXCEPT ![device] = @ \cup {websocket}]
  /\ UNCHANGED << scheduled, delivered >>
  /\ UNCHANGED << svars, rvars, cvars, formatted, avars >>

\* manager.disconnect(websocket, device_name), when the endpoint ends
Disconnect(websocket, device) ==
  /\ websocket \in connections[device]
  /\ connections' = [connections EXCEPT ![device] = @ \ {websocket}]
  /\ UNCHANGED << scheduled, delivered >>
  /\ UNCHANGED << svars, rvars, cvars, formatted, avars >>

\* (send_event as it would be if it sent to every WebSocket of the manager)
Receivers_Everyone(conns, device) == UNION { conns[d] : d \in DOMAIN conns }

\* list(self.connections[device_name])
Receivers(conns, device) == conns[device]

\* The event loop runs the oldest send_event coroutine: the message goes to
\* the WebSockets connected for the device; those whose send_json raises
\* are discarded from the connections.
SendEvent ==
  /\ scheduled # << >>
  /\ scheduled' = Tail(scheduled)
  /\ \E failing \in SUBSET Receivers(connections, Head(scheduled).device) :
       /\ delivered' = [w \in WebSockets |->
                          IF w \in Receivers(connections, Head(scheduled).device) \ failing
                          THEN Append(delivered[w], Head(scheduled))
                          ELSE delivered[w]]
       /\ connections' = [connections EXCEPT ![Head(scheduled).device] = @ \ failing]
  /\ UNCHANGED << svars, rvars, cvars, formatted, avars >>

(* ------------------------- _format_number_value ------------------------ *)
\* format_str.count(c)
Count(s, c) == Cardinality({ i \in 1..Len(s) : s[i] = c })

\* The decimal digits of a natural number
RECURSIVE NatDigits(_)
NatDigits(n) ==
  IF n < 10 THEN << Digits[n + 1] >>
  ELSE Append(NatDigits(n \div 10), Digits[(n % 10) + 1])
\* A text filled on the left up to a width
RECURSIVE PadLeft(_, _, _)
PadLeft(s, width, fill) == IF Len(s) >= width THEN s ELSE PadLeft(<< fill >> \o s, width, fill)
\* A number text under a zero-filled width: the sign comes first and counts
\* in the width
ZeroFilled(neg, digits, width) ==
  IF neg THEN << "-" >> \o PadLeft(digits, width - 1, "0") ELSE PadLeft(digits, width, "0")
\* n / d rounded to the nearest integer, a tie going to the even one
RoundHalfEven(n, d) ==
  LET q == n \div d
      r == n % d
  IN IF 2 * r > d \/ (2 * r = d /\ q % 2 = 1) THEN q + 1 ELSE q
\* The digits of units / Scale with p digits after the point
FixedDigits(units, p) ==
  IF p >= FractionDigits
  THEN NatDigits(units \div Scale) \o << "." >>
         \o PadLeft(NatDigits(units % Scale), FractionDigits, "0")
         \o [i \in 1..(p - FractionDigits) |-> "0"]
  ELSE LET k == RoundHalfEven(units, 10 ^ (FractionDigits - p)) IN
       IF p = 0 THEN NatDigits(k)
       ELSE NatDigits(k \div (10 ^ p)) \o << "." >> \o PadLeft(NatDigits(k % (10 ^ p)), p, "0")
\* f"{x:0W.Pf}" for a finite x
ZeroFilledFixed(neg, units, width, p) == ZeroFilled(neg, FixedDigits(units, p), width)
\* f"{n:0Wd}" for an int n; a zero has no sign
ZeroFilledInt(neg, n, width) == ZeroFilled(neg /\ n > 0, NatDigits(n), width)

\* A text without its trailing zeros
RECURSIVE StripZeros(_)
StripZeros(s) ==
  IF s # << >> /\ s[Len(s)] = "0" THEN StripZeros(SubSeq(s, 1, Len(s) - 1)) ELSE s
\* str(x) for a float x: the shortest text that reads back as x, which for
\* the magnitudes of the inputs (1e-4 and above, below 1e16) is the decimal
\* without trailing zeros and with at least one digit after the point
FloatStr(x) ==
  CASE x.kind = "nan" -> << "n", "a", "n" >>
    [] x.kind = "inf" -> (IF x.neg THEN << "-" >> ELSE << >>) \o << "i", "n", "f" >>
    [] x.kind = "finite" /\ (x.units = 0 \/ x.units >= Scale \div 10000) ->
         LET frac == StripZeros(PadLeft(NatDigits(x.units % Scale), FractionDigits, "0")) IN
         (IF x.neg THEN << "-" >> ELSE << >>)
           \o NatDigits(x.units \div Scale) \o << "." >>
           \o (IF frac = << >> THEN << "0" >> ELSE frac)

\* What a formatting call returns or raises
FormatReturns(value) == [value |-> value, exc |-> "none"]
FormatRaises(exc) == [value |-> PyNone, exc |-> exc]

\* The last position of the run of digits that starts at position from
\* (from - 1 when there is no digit there)
DigitRunEnd(s, from) ==
  CHOOSE j \in (from - 1)..Len(s) :
    /\ \A i \in from..j : IsDigit(s[i])
    /\ j = Len(s) \/ ~IsDigit(s[j + 1])
\* re.match(r'%(\d+)(?:\.(\d+))?m', format_str), which matches at the start
\* of the text and ignores what follows the m; precision is group 2 when
\* there is one and the width otherwise
NoMatch == [matched |-> FALSE, width |-> 0, precision |-> 0]
SexagesimalMatch(fmt) ==
  LET e1 == DigitRunEnd(fmt, 2)
      e2 == DigitRunEnd(fmt, e1 + 2)
      width == DigitsValue(SubSeq(fmt, 2, e1), 0)
  IN IF ~StartsWith(fmt, << "%" >>) \/ e1 < 2 \/ e1 + 1 > Len(fmt) THEN NoMatch
     ELSE IF fmt[e1 + 1] = "." /\ e2 >= e1 + 2 /\ e2 + 1 <= Len(fmt) /\ fmt[e2 + 1] = "m"
     THEN [matched |-> TRUE, width |-> width,
           precision |-> DigitsValue(SubSeq(fmt, e1 + 2, e2), 0)]
     ELSE IF fmt[e1 + 1] = "m"
     THEN [matched |-> TRUE, width |-> width, precision |-> width]
     ELSE NoMatch

\* (the sign as it would be if it were read off the truncated degrees)
is_negative_FromDegrees(x) == x.kind = "finite" /\ x.neg /\ x.units >= Scale

\* is_negative = value < 0
is_negative(x) == x.kind \in { "finite", "inf" } /\ x.neg /\ (x.kind = "inf" \/ x.units > 0)

\* (the body as it would be if the minutes were taken from the whole value
\* and not from its fraction of a degree)
SexagesimalDigits_TotalMinutes(units, precision) ==
  LET degrees == units \div Scale
      minutes == degrees * 60 + ((units % Scale) * 60) \div Scale
      seconds == (((units % Scale) * 60) % Scale) * 60
  IN ZeroFilledInt(FALSE, degrees, 2) \o << ":" >> \o ZeroFilledInt(FALSE, minutes, 2)
       \o << ":" >> \o ZeroFilledFixed(FALSE, seconds, IF precision = 6 THEN 2 ELSE 5,
                                        IF precision = 6 THEN 0 ELSE 2)

\* The body of _format_sexagesimal for a finite value and a precision:
\* degrees, minutes and seconds of the absolute value, the minutes and the
\* seconds counted in units of 1/Scale
SexagesimalDigits(units, precision) ==
  LET degrees == units \div Scale
      minutes_float == (units % Scale) * 60
      minutes == minutes_float \div Scale
      seconds == (minutes_float % Scale) * 60
      dm == ZeroFilledInt(FALSE, degrees, 2) \o << ":" >> \o ZeroFilledInt(FALSE, minutes, 2)
  IN CASE precision = 8 -> dm \o << ":" >> \o ZeroFilledFixed(FALSE, seconds, 4, 1)
       [] precision = 6 -> dm \o << ":" >> \o ZeroFilledFixed(FALSE, seconds, 2, 0)
       [] precision = 5 ->
            ZeroFilledInt(FALSE, degrees, 2) \o << ":" >> \o ZeroFilledFixed(FALSE, minutes_float, 4, 1)
       [] precision = 3 ->
            ZeroFilledInt(FALSE, degrees, 2) \o << ":" >>
              \o ZeroFilledInt(FALSE, RoundHalfEven(minutes_float, Scale), 2)
       [] OTHER -> dm \o << ":" >> \o ZeroFilledFixed(FALSE, seconds, 5, 2)

\* _format_sexagesimal(value, format_str) for a float value: a format that
\* does not match gives str(value); int() of a nan raises ValueError, which
\* is caught and gives str(value); int() of an infinity raises
\* OverflowError, which nothing catches
_format_sexagesimal(x, fmt) ==
  LET match == SexagesimalMatch(fmt) IN
  IF ~match.matched THEN FormatReturns(Str(FloatStr(x)))
  ELSE IF x.kind = "inf" THEN FormatRaises("OverflowError")
  ELSE IF x.kind = "nan" THEN FormatReturns(Str(FloatStr(x)))
  ELSE FormatReturns(Str((IF is_negative(x) THEN << "-" >> ELSE << >>)
                      \o SexagesimalDigits(x.units, match.precision)))

\* The conversion characters of the % operator; the model renders f only,
\* and the formats it is followed on hold no other conversion in first place
Conversions ==
  { "d", "i", "o", "u", "x", "X", "e", "E", "f", "F", "g", "G", "c", "r", "s", "a" }
\* "%W.Pf" % x: the sign, the digits with P digits after the point (6 when
\* no precision is given), filled with blanks up to the width
PercentF(x, width, p) ==
  LET text == CASE x.kind = "finite" ->
                     (IF x.neg THEN << "-" >> ELSE << >>) \o FixedDigits(x.units, p)
                [] OTHER -> FloatStr(x)
  IN PadLeft(text, width, " ")
\* format_str % num_value from position i on, used arguments counted: text
\* is copied, %% is a percent sign, a conversion takes the one argument
\* there is.  A second conversion, a * or a ( raise TypeError, like a
\* format without any conversion; an unknown character or a format that
\* ends in a conversion raise ValueError.
RECURSIVE PercentFrom(_, _, _, _, _)
PercentFrom(fmt, i, used, x, acc) ==
  IF i > Len(fmt)
  THEN (IF used = 0 THEN FormatRaises("TypeError") ELSE FormatReturns(Str(acc)))
  ELSE IF fmt[i] # "%" THEN PercentFrom(fmt, i + 1, used, x, Append(acc, fmt[i]))
  ELSE IF i + 1 <= Len(fmt) /\ fmt[i + 1] = "%"
  THEN PercentFrom(fmt, i + 2, used, x, Append(acc, "%"))
  ELSE LET e1 == DigitRunEnd(fmt, i + 1)
           dotted == e1 + 1 <= Len(fmt) /\ fmt[e1 + 1] = "."
           e2 == IF dotted THEN DigitRunEnd(fmt, e1 + 2) ELSE e1
           width == DigitsValue(SubSeq(fmt, i + 1, e1), 0)
           p == IF dotted THEN DigitsValue(SubSeq(fmt, e1 + 2, e2), 0) ELSE 6
           k == e2 + 1
       IN CASE k > Len(fmt) -> FormatRaises("ValueError")
            [] k <= Len(fmt) /\ fmt[k] \in { "*", "(" } -> FormatRaises("TypeError")
            [] k <= Len(fmt) /\ fmt[k] \in Conversions /\ used > 0 -> FormatRaises("TypeError")
            [] k <= Len(fmt) /\ fmt[k] \in { "f", "F" } /\ used = 0
                 /\ (e1 < i + 1 \/ fmt[i + 1] # "0") ->
                 PercentFrom(fmt, k + 1, 1, x, acc \o PercentF(x, width, p))
            [] k <= Len(fmt) /\ fmt[k] \notin Conversions \cup { "*", "(", "-", "+", " ", "#" } ->
                 FormatRaises("ValueError")

\* f"{num_value:.6g}": six significant digits without trailing zeros, for
\* the magnitudes that are written without an exponent
GeneralSix(x) ==
  CASE x.kind # "finite" -> FloatStr(x)
    [] x.kind = "finite" /\ x.units = 0 -> (IF x.neg THEN << "-" >> ELSE << >>) \o << "0" >>
    [] x.kind = "finite" /\ x.units > 0
         /\ Len(NatDigits(x.units)) - (FractionDigits + 1) \in -4..5 ->
         LET exponent == Len(NatDigits(x.units)) - (FractionDigits + 1)
             digits == FixedDigits(x.units, 5 - exponent)
             short == IF Contains(digits, ".") THEN StripZeros(digits) ELSE digits
         IN (IF x.neg THEN << "-" >> ELSE << >>)
              \o (IF short[Len(short)] = "." THEN SubSeq(short, 1, Len(short) - 1) ELSE short)

\* The colon branch for a finite value: int() truncates towards zero, the
\* rest keeps the sign of the value, and a rest of zero is positive unless
\* the value is -0.0.  A format with three colons or more falls through
\* both tests and the function returns None.
ColonFormat(x, colons) ==
  LET whole == x.units \div Scale
      rest == x.units % Scale
      minutes == (rest * 60) \div Scale
      seconds == ((rest * 60) % Scale) * 60
      signed(v) == x.neg /\ (v > 0 \/ x.units = 0)
  IN IF colons = 2
     THEN Str(ZeroFilledInt(x.neg, whole, 2) \o << ":" >> \o ZeroFilledInt(x.neg, minutes, 2)
                \o << ":" >> \o ZeroFilledFixed(signed(seconds), seconds, 6, 3))
     ELSE IF colons = 1
     THEN Str(ZeroFilledInt(x.neg, whole, 2) \o << ":" >>
                \o ZeroFilledFixed(signed(rest), rest * 60, 6, 3))
     ELSE PyNone

\* int(num_value): OverflowError for an infinity, ValueError for a nan
IntOf(x) ==
  IF x.kind = "inf" THEN FormatRaises("OverflowError")
  ELSE IF x.kind = "nan" THEN FormatRaises("ValueError")
  ELSE FormatReturns(Str((IF x.neg /\ x.units >= Scale THEN << "-" >> ELSE << >>)
                      \o NatDigits(x.units \div Scale)))

\* The try block of _format_number_value for a value float() accepts
FormatFloat(x, fmt) ==
  IF Contains(fmt, "m") /\ StartsWith(fmt, << "%" >>) THEN _format_sexagesimal(x, fmt)
  ELSE IF StartsWith(fmt, << "%" >>) /\ (Contains(fmt, "d") \/ Contains(fmt, "i")) THEN IntOf(x)
  ELSE IF StartsWith(fmt, << "%" >>) /\ \E c \in { "f", "e", "E", "g", "G" } : Contains(fmt, c)
  THEN PercentFrom(fmt, 1, 0, x, << >>)
  ELSE IF Contains(fmt, ":")
  THEN (IF Count(fmt, ":") \in { 1, 2 } /\ x.kind # "finite"
        THEN IntOf(x)
        ELSE FormatReturns(ColonFormat(x, Count(fmt, ":"))))
  ELSE FormatReturns(Str(GeneralSix(x)))

\* (the except clause as it would be if it caught every exception)
FormatCaught_All(exc) == TRUE

\* except (ValueError, TypeError): return value
FormatCaught(exc) == exc \in { "ValueError", "TypeError" }

\* _format_number_value(value, format_str)
_format_number_value(value, format) ==
  IF format = PyNone \/ format.text = << >> \/ value = PyNone \/ value.text = << >>
  THEN FormatReturns(value)
  ELSE LET x == ToFloat(value)
           r == IF x.exc # "none" THEN FormatRaises(x.exc) ELSE FormatFloat(x, format.text)
       IN IF r.exc # "none" /\ FormatCaught(r.exc) THEN FormatReturns(value) ELSE r

\* The raw values the formatting is followed on: str(widget.value) of
\* finite, infinite and undefined numbers, texts that are no number, the
\* empty text and None
FormatValues ==
  { PyNone,
    Str(<< "-", "0", ".", "5", "0", "2", "7", "7", "7", "8" >>),
    Str(<< "1", ".", "1", "0", "5" >>),
    Str(<< "1", ".", "5" >>),
    Str(<< "-", "1", ".", "5" >>),
    Str(<< "-", "0", ".", "5" >>),
    Str(<< "0", ".", "0" >>),
    Str(<< "-", "0", ".", "0" >>),
    Str(<< "-", "0", ".", "0", "0", "1" >>),
    Str(<< "1", "2", ".", "0" >>),
    Str(<< "0", ".", "9", "9", "9", "9" >>),
    Str(<< "a", "b", "c" >>),
    Str(<< >>),
    Str(<< "i", "n", "f" >>),
    Str(<< "-", "i", "n", "f" >>),
    Str(<< "n", "a", "n" >>) }
\* The formats: %m patterns of every precision, malformed %m patterns,
\* printf specifiers, colon patterns, a text that is none of these, the
\* empty text and None
Formats ==
  { PyNone,
    Str(<< "%", "9", "m" >>),
    Str(<< "%", "8", "m" >>),
    Str(<< "%", "6", "m" >>),
    Str(<< "%", "5", "m" >>),
    Str(<< "%", "3", "m" >>),
    Str(<< "%", "6", ".", "6", "m" >>),
    Str(<< "%", "9", ".", "6", "m" >>),
    Str(<< "%", "1", "0", ".", "3", "m" >>),
    Str(<< "%", "4", "m" >>),
    Str(<< "%", "m" >>),
    Str(<< "%", "x", "m" >>),
    Str(<< "%", "5", ".", "m" >>),
    Str(<< "%", "5", "m", ".", "3" >>),
    Str(<< "%", "d" >>),
    Str(<< "%", "i" >>),
    Str(<< "%", ".", "2", "f" >>),
    Str(<< "%", "5", ".", "2", "f" >>),
    Str(<< "%", "f" >>),
    Str(<< "%", "z", "f" >>),
    Str(<< "%", "f", "%", "f" >>),
    Str(<< "%", ".", "2", "f", "%", "%" >>),
    Str(<< ":" >>),
    Str(<< "a", ":", "b" >>),
    Str(<< "a", ":", "b", ":", "c" >>),
    Str(<< "a", ":", "b", ":", "c", ":", "d" >>),
    Str(<< "x", "y", "z" >>),
    Str(<< >>) }

NotFormatted(value, format) ==
  [value |-> value, format |-> format, done |-> FALSE, result |-> PyNone, exc |-> "none"]
InitFormat == formatted = NotFormatted(PyNone, PyNone)

\* A call of _format_number_value(value, format_str)
FormatNumberValue ==
  /\ ~formatted.done
  /\ LET r == _format_number_value(formatted.value, formatted.format) IN
       formatted' = [formatted EXCEPT !.done = TRUE, !.result = r.value, !.exc = r.exc]
  /\ UNCHANGED << svars, rvars, cvars, bvars, avars >>

(* ------------------------------- Database ------------------------------ *)
\* number of requests to the web application explored
MaxRequests == 3

\* The scripts column of a profile: NULL, the empty text, the JSON text of a
\* list of rules, or a text that is no JSON
NullScripts == [kind |-> "null", rules |-> << >>]
EmptyScripts == [kind |-> "empty", rules |-> << >>]
InvalidScripts == [kind |-> "invalid", rules |-> << >>]
Scripts(list) == [kind |-> "json", rules |-> list]

\* A row of the profile table as INSERT INTO profile (name) makes it: the
\* columns port, autostart, autoconnect and scripts take their defaults
ProfileRow(id, name) ==
  [id |-> id, name |-> name, port |-> INDI_PORT, autostart |-> 0, autoconnect |-> 0,
   scripts |-> NullScripts]
\* A row of the driver table and a row of the remote table
DriverRow(label, profile) == [label |-> label, profile |-> profile]
RemoteRow(drivers, profile) == [drivers |-> drivers, profile |-> profile]
\* fetchone() on an empty result
NoRow == [id |-> 0]
\* A bool bound to an INTEGER column
Bit(b) == IF b THEN 1 ELSE 0

\* Database.create on a new file: the profile Simulators with its three
\* drivers.  seq is the highest id the profile table has handed out
\* (AUTOINCREMENT never hands one out twice).
NewDatabase ==
  [profile |-> << ProfileRow(1, "Simulators") >>,
   driver |-> << DriverRow(<< "Telescope Simulator" >>, 1),
                 DriverRow(<< "CCD Simulator" >>, 1),
                 DriverRow(<< "Focuser Simulator" >>, 1) >>,
   remote |-> << >>,
   seq |-> 1]

\* SELECT * FROM profile WHERE name=?  (name is UNIQUE)
get_profile(d, name) ==
  IF \E i \in 1..Len(d.profile) : d.profile[i].name = name
  THEN d.profile[CHOOSE i \in 1..Len(d.profile) : d.profile[i].name = name]
  ELSE NoRow
\* SELECT label FROM driver WHERE profile=(SELECT id FROM profile WHERE name=?)
get_profile_drivers_labels(d, name) ==
  SelectSeq(d.driver, LAMBDA row : get_profile(d, name) # NoRow
                                   /\ row.profile = get_profile(d, name).id)
\* SELECT drivers FROM remote WHERE profile=(SELECT id FROM profile WHERE name=?)
get_profile_remote_drivers(d, name) ==
  SelectSeq(d.remote, LAMBDA row : get_profile(d, name) # NoRow
                                   /\ row.profile = get_profile(d, name).id)

\* add_profile(name): the IntegrityError of a name that exists is logged
add_profile(d, name) ==
  IF get_profile(d, name) # NoRow THEN d
  ELSE [d EXCEPT !.profile = Append(@, ProfileRow(d.seq + 1, name)), !.seq = @ + 1]

\* delete_profile(name): the driver rows of the profile, then its row
delete_profile(d, name) ==
  [d EXCEPT !.driver = SelectSeq(@, LAMBDA row : get_profile(d, name) = NoRow
                                                \/ row.profile # get_profile(d, name).id),
            !.profile = SelectSeq(@, LAMBDA row : row.name # name)]

\* (update_profile as it would be without the reset of the other profiles)
ResetAutostart_Never(rows, autostart) == rows

\* if autostart: UPDATE profile SET autostart=0
ResetAutostart(rows, autostart) ==
  IF autostart THEN [i \in 1..Len(rows) |-> [rows[i] EXCEPT !.autostart = 0]] ELSE rows

\* update_profile(name, port, autostart, autoconnect, scripts):
\* UPDATE profile SET port=?, autostart=?, autoconnect=?, scripts=? WHERE name=?
update_profile(d, name, p, autostart, autoconnect, scripts) ==
  [d EXCEPT !.profile =
     [i \in 1..Len(d.profile) |->
        IF d.profile[i].name = name
        THEN [ResetAutostart(d.profile, autostart)[i] EXCEPT
                !.port = p, !.autostart = Bit(autostart),
                !.autoconnect = Bit(autoconnect), !.scripts = scripts]
        ELSE ResetAutostart(d.profile, autostart)[i]]]

\* What save_profile_drivers is given: dictionaries with a label key or with
\* a remote key
LocalItem(label) == [key |-> "label", value |-> label]
RemoteItem(drivers) == [key |-> "remote", value |-> drivers]
RowsOf(items, key, pid) ==
  LET kept == SelectSeq(items, LAMBDA item : item.key = key) IN
  [i \in 1..Len(kept) |->
     IF key = "label" THEN DriverRow(kept[i].value, pid) ELSE RemoteRow(kept[i].value, pid)]

\* save_profile_drivers(name, drivers): the profile is added when there is
\* none of that name; its driver and remote rows are replaced
save_profile_drivers(d, name, items) ==
  LET added == add_profile(d, name)
      pid == get_profile(added, name).id
  IN [added EXCEPT
        !.driver = SelectSeq(@, LAMBDA row : row.profile # pid) \o RowsOf(items, "label", pid),
        !.remote = SelectSeq(@, LAMBDA row : row.profile # pid) \o RowsOf(items, "remote", pid)]

(* ------------------------- requests on the profiles -------------------- *)
\* A profile name that is that of no profile; the value None of
\* saved_profile and of a request that is not there
ProfileNames == { "Simulators", "P1", "P2" }
Nobody == "<None>"
\* The answer to a request: the route, the profile of its path, the HTTP
\* status, and the database as the request found it
Answer(op, profile, status) == [op |-> op, profile |-> profile, status |-> status, prev |-> db]
NoRequest == [op |-> "none", profile |-> Nobody, status |-> 0, prev |-> NewDatabase]

\* The application when create_app has returned, on the database d
InitAppWith(d) ==
  /\ db = d
  /\ saved_profile = Nobody
  /\ active_profile = ""
  /\ appPc = "idle"
  /\ awaiting = Nobody
  /\ appLast = NoRequest
  /\ appOps = 0
  /\ indi_client = None
  /\ instances = 0
  /\ connected = FALSE
  /\ evt_listener_initialized = FALSE
  /\ tasks = << >>
InitApp == InitAppWith(NewDatabase)

\* The event loop is free to run a request handler
LoopFree == appPc = "idle" /\ callerPc = "idle"

\* POST /api/profiles/{name}
AddProfile(name) ==
  /\ LoopFree /\ appOps < MaxRequests
  /\ db' = add_profile(db, name)
  /\ appLast' = Answer("add_profile", name, 200)
  /\ appOps' = appOps + 1
  /\ UNCHANGED << saved_profile, active_profile, appPc, awaiting, gvars >>
  /\ UNCHANGED << svars, rvars, pvars >>

\* DELETE /api/profiles/{name}
DeleteProfile(name) ==
  /\ LoopFree /\ appOps < MaxRequests
  /\ db' = delete_profile(db, name)
  /\ appLast' = Answer("delete_profile", name, 200)
  /\ appOps' = appOps + 1
  /\ UNCHANGED << saved_profile, active_profile, appPc, awaiting, gvars >>
  /\ UNCHANGED << svars, rvars, pvars >>

\* PUT /api/profiles/{name} with port and autostart in its body: autoconnect
\* and scripts take the defaults of the route, 0 and ""
UpdateProfile(name, p, autostart) ==
  /\ LoopFree /\ appOps < MaxRequests
  /\ db' = update_profile(db, name, p, autostart, FALSE, EmptyScripts)
  /\ appLast' = [op |-> "update_profile", profile |-> name, status |-> 200, prev |-> db,
                  autostart |-> autostart]
  /\ appOps' = appOps + 1
  /\ UNCHANGED << saved_profile, active_profile, appPc, awaiting, gvars >>
  /\ UNCHANGED << svars, rvars, pvars >>

\* POST /api/profiles/{name}/drivers
DriverItems ==
  { << >>, << LocalItem(<< "A" >>), RemoteItem(RemoteBinary), LocalItem(<< "B" >>) >> }
SaveProfileDrivers(name, items) ==
  /\ LoopFree /\ appOps < MaxRequests
  /\ db' = save_profile_drivers(db, name, items)
  /\ appLast' = Answer("save_profile_drivers", name, 200)
  /\ appOps' = appOps + 1
  /\ UNCHANGED << saved_profile, active_profile, appPc, awaiting, gvars >>
  /\ UNCHANGED << svars, rvars, pvars >>

(* ----------------------------- start_profile --------------------------- *)
\* profile_scripts: json.loads of the scripts column when it holds a text
\* that is not empty; None when it holds none or json.loads raises
\* JSONDecodeError, which is logged
ProfileScripts(info) ==
  IF info.scripts.kind = "json" THEN Rules(info.scripts.rules) ELSE NoRules

\* for d in profile_drivers: the drivers collection.by_label finds
RECURSIVE LocalDrivers(_, _)
LocalDrivers(drivers, rows) ==
  IF rows = << >> THEN << >>
  ELSE (IF by_label(drivers, Head(rows).label) # NoEntry
        THEN << by_label(drivers, Head(rows).label) >> ELSE << >>)
       \o LocalDrivers(drivers, Tail(rows))

\* for rule in profile_scripts: if driver_label and driver_label == driver:
\* one_driver.rule = rule
RECURSIVE RemoteRule(_, _, _)
RemoteRule(driver, list, rule) ==
  IF list = << >> THEN rule
  ELSE RemoteRule(driver, Tail(list),
                  IF Truthy(Head(list).Driver) /\ Head(list).Driver = driver
                  THEN Head(list).id ELSE rule)
\* DeviceDriver(driver, driver, "1.0", driver, "Remote", None, False, None)
\* per row of the remote table, with the rule of the profile that names it
RemoteFamily == << "Remote" >>
RemoteDrivers(rows, scripts) ==
  [i \in 1..Len(rows) |->
     [Entry(rows[i].drivers, rows[i].drivers, rows[i].drivers, RemoteFamily, FALSE)
        EXCEPT !.rule = RemoteRule(rows[i].drivers, scripts.list, "none")]]

\* (the first sort key as it would be if it looked at the value of the rule)
HasRuleAttribute_NotNone(d) == d.rule # "none"

\* hasattr(d, 'rule'): DeviceDriver.__init__ sets the attribute on every
\* driver, to None when no rule is given
HasRuleAttribute(d) == TRUE

\* key=lambda d: (0 if hasattr(d, 'rule') else 1,
\*                1 if getattr(d, 'family', '') == 'Remote' else 2)
SortKey(d) ==
  << IF HasRuleAttribute(d) THEN 0 ELSE 1, IF d.family = RemoteFamily THEN 1 ELSE 2 >>
\* sorted(all_drivers, key=...): the sort is stable
SortKeys == << << 0, 1 >>, << 0, 2 >>, << 1, 1 >>, << 1, 2 >> >>
RECURSIVE SortedByKey(_, _)
SortedByKey(drivers, keys) ==
  IF keys = << >> THEN << >>
  ELSE SelectSeq(drivers, LAMBDA d : SortKey(d) = Head(keys)) \o SortedByKey(drivers, Tail(keys))

\* all_drivers as start_profile hands it to indi_server.start, for the
\* collection the rules have been applied to
AllDrivers(drivers, d, profile) ==
  SortedByKey(LocalDrivers(drivers, get_profile_drivers_labels(d, profile))
                \o RemoteDrivers(get_profile_remote_drivers(d, profile),
                                 ProfileScripts(get_profile(d, profile))),
              SortKeys)

\* The DeviceDriver objects as IndiServer reads them: descriptor files
\* without skeleton and mdpd attributes
ServerDrivers(drivers) ==
  [i \in 1..Len(drivers) |->
     Descriptor(drivers[i].label, drivers[i].binary, NoSkeleton, FALSE, drivers[i].rule)]

(* ------------------------ the server routes --------------------------- *)
\* What follows start_profile in the handler.  routes.py awaits
\* indi_server.wait_for_drivers_started(5) in a thread, which gives the
\* event loop to other requests and lasts until the starter worker has
\* ended or five seconds have passed; main.py creates the start_client task
\* and answers at once.
AfterStartProfile(app, profile) ==
  IF app = "routes"
  THEN /\ awaiting' = profile
       /\ UNCHANGED << appLast, tasks >>
  ELSE /\ tasks' = Append(tasks, profile)
       /\ appLast' = Answer("start_server", profile, 200)
       /\ awaiting' = awaiting

\* POST /api/server/start/{profile}: the assignments to saved_profile and
\* active_profile, start_profile, and indi_server.start up to the end of its
\* first statement.  app is "routes" for routes.py and "main" for main.py,
\* which differ in what a missing profile does: routes.py raises
\* HTTPException(404); main.py constructs the exception without raising it
\* and info.get raises AttributeError on None.  The profiles have
\* autoconnect 0, so no auto_connect timer is started.
StartServerOf(app, profile) ==
  /\ LoopFree /\ awaiting = Nobody /\ appOps < MaxRequests
  /\ appOps' = appOps + 1
  /\ saved_profile' = profile
  /\ active_profile' = profile
  /\ LET info == get_profile(db, profile)
         applied == apply_rules(collection, ProfileScripts(info))
         all_drivers == ServerDrivers(AllDrivers(applied, db, profile))
     IN IF info = NoRow
        THEN /\ appLast' = Answer("start_server", profile, IF app = "routes" THEN 404 ELSE 500)
             /\ UNCHANGED << appPc, awaiting, tasks, collection, call, callerPc, last >>
        ELSE /\ collection' = applied
             /\ IF all_drivers = << >>
                THEN /\ AfterStartProfile(app, profile)
                     /\ UNCHANGED << appPc, call, callerPc, last >>
                ELSE /\ nstarts < MaxStarts
                     /\ \E o \in IsRunningOutcomes(info.port) :
                          CASE o = "raise" ->
                                 /\ last' = Completed("start", "UnboundLocalError")
                                 /\ appLast' = Answer("start_server", profile, 500)
                                 /\ UNCHANGED << appPc, awaiting, tasks, call, callerPc >>
                            [] o = "true" ->
                                 /\ call' = [op |-> "start", port |-> info.port,
                                             drivers |-> all_drivers]
                                 /\ callerPc' = "stop_scan"
                                 /\ appPc' = "start_server"
                                 /\ UNCHANGED << last, appLast, awaiting, tasks >>
                            [] o = "false" ->
                                 /\ call' = [op |-> "start", port |-> info.port,
                                             drivers |-> all_drivers]
                                 /\ callerPc' = "start_launch"
                                 /\ appPc' = "start_server"
                                 /\ UNCHANGED << last, appLast, awaiting, tasks >>
  /\ UNCHANGED << psutilInstalled, async_cmd, port, running_drivers, fifo,
                  nstarts, hvars, wvars, driverOps >>
  /\ UNCHANGED << xmldir, regLast, answer, regOps >>
  /\ UNCHANGED << db, indi_client, instances, connected, evt_listener_initialized >>
  /\ UNCHANGED pvars

\* indi_server.start has returned to start_profile, or an exception has left
\* it
StartReturnedOf(app) ==
  /\ appPc = "start_server" /\ callerPc = "idle"
  /\ appPc' = "idle"
  /\ IF last.exc # "none"
     THEN /\ appLast' = Answer("start_server", active_profile, 500)
          /\ UNCHANGED << awaiting, tasks >>
     ELSE AfterStartProfile(app, active_profile)
  /\ UNCHANGED << db, saved_profile, active_profile, appOps, indi_client, instances,
                  connected, evt_listener_initialized >>
  /\ UNCHANGED << svars, rvars, pvars >>

\* routes.py: the await of start_server ends and the request is answered
StartServerReturn ==
  /\ LoopFree /\ awaiting # Nobody
  /\ appLast' = Answer("start_server", awaiting, 200)
  /\ awaiting' = Nobody
  /\ UNCHANGED << db, saved_profile, active_profile, appPc, appOps, gvars >>
  /\ UNCHANGED << svars, rvars, pvars >>

\* POST /api/server/stop, up to the entry of indi_server.stop()
StopServer ==
  /\ LoopFree /\ appOps < MaxRequests
  /\ appOps' = appOps + 1
  /\ call' = [op |-> "stop", port |-> ResolvePort(NoPort), drivers |-> << >>]
  /\ callerPc' = "stop_scan"
  /\ appPc' = "stop_server"
  /\ UNCHANGED << psutilInstalled, async_cmd, port, running_drivers, fifo,
                  nstarts, hvars, wvars, last, driverOps >>
  /\ UNCHANGED << db, saved_profile, active_profile, awaiting, appLast, gvars >>
  /\ UNCHANGED << rvars, pvars >>

\* stop_indi_client(): if indi_client: indi_client.disconnect(); indi_client = None
stop_indi_client ==
  /\ indi_client' = None
  /\ connected' = FALSE

\* indi_server.stop() has returned to the handler, or an exception has left
\* it: main.py stops the client, and both clear active_profile
StopReturnedOf(app) ==
  /\ appPc = "stop_server" /\ callerPc = "idle"
  /\ appPc' = "idle"
  /\ IF last.exc # "none"
     THEN /\ appLast' = Answer("stop_server", Nobody, 500)
          /\ UNCHANGED << active_profile, indi_client, connected >>
     ELSE /\ appLast' = Answer("stop_server", Nobody, 200)
          /\ active_profile' = ""
          /\ IF app = "main" THEN stop_indi_client ELSE UNCHANGED << indi_client, connected >>
  /\ UNCHANGED << db, saved_profile, awaiting, appOps, instances,
                  evt_listener_initialized, tasks >>
  /\ UNCHANGED << svars, rvars, pvars >>

\* GET /api/server/status
GetServerStatus ==
  /\ LoopFree
  /\ \E o \in IsRunningOutcomes(NoPort) :
       appLast' = [op |-> "get_server_status", profile |-> active_profile,
                   status |-> IF o = "raise" THEN 500 ELSE 200, prev |-> db, running |-> o]
  /\ UNCHANGED << db, saved_profile, active_profile, appPc, awaiting, appOps, gvars >>
  /\ UNCHANGED << svars, rvars, pvars >>

\* main.py: the start_client task of a start_server request, run by the
\* event loop when its sleep has ended.  start_indi_client: get_indi_client()
\* constructs the INDIClient when there is none, and connect() is called on a
\* client that is not connected and gives what the serverConnected callback
\* has set by then.  The listener is created when the flag is not set.
StartClient ==
  /\ LoopFree /\ tasks # << >>
  /\ tasks' = Tail(tasks)
  /\ LET new == indi_client = None IN
     /\ indi_client' = IF new THEN instances + 1 ELSE indi_client
     /\ instances' = IF new THEN instances + 1 ELSE instances
     /\ properties' = IF new THEN NoDevices ELSE properties
     /\ dirty' = IF new THEN [d \in Devices |-> {}] ELSE dirty
     /\ IF ~new /\ connected THEN connected' = TRUE ELSE connected' \in BOOLEAN
     /\ listeners' = (IF new THEN << >> ELSE listeners)
                       \o (IF evt_listener_initialized THEN << >>
                           ELSE << "indi_event_listener" >>)
  /\ evt_listener_initialized' = TRUE
  /\ appLast' = Answer("start_client", Head(tasks), 200)
  /\ UNCHANGED << db, saved_profile, active_profile, appPc, awaiting, appOps >>
  /\ UNCHANGED << notified, sent, handling, clientLast, clientOps >>
  /\ UNCHANGED << svars, rvars, bvars, formatted >>

(* ---------------------------- specification ---------------------------- *)
\* The server manager on an empty driver directory, its client not connected
Init ==
  /\ InitServer /\ xmldir = Directory(<< >>) /\ InitCollection
  /\ InitClient /\ InitBridge /\ InitFormat /\ InitApp

\* The run() threads and the operating system
ProcessSteps ==
  \/ \E h \in Handles : RunSpawn(h)
  \/ \E h \in Handles : RunWait(h)
  \/ \E h \in Handles : RunFinally(h)
  \/ \E h \in Handles : ProcExit(h)

\* The server life cycle: start()/stop() on either port, no drivers.
Next ==
  \/ \E p \in Ports : Start(p, << >>)
  \/ StartLaunch
  \/ \E p \in Ports \cup {NoPort} : Stop(p)
  \/ StopScan
  \/ StopTerm
  \/ StopJoin
  \/ ProcessSteps

Spec == Init /\ [][Next]_vars

\* The drivers of a profile: start() with a driver list, the starter
\* workers, stop().
NextDrivers ==
  \/ \E ds \in DriverLists : Start(INDI_PORT, ds)
  \/ StartLaunch
  \/ Stop(NoPort)
  \/ StopScan
  \/ StopTerm
  \/ StopJoin
  \/ ProcessSteps
  \/ \E w \in Handles : WorkerTake(w)
  \/ \E w \in Handles : WorkerRecord(w)

SpecDrivers == Init /\ [][NextDrivers]_vars

\* Single drivers: direct start_driver/stop_driver calls around a server
\* started without drivers.
NextCalls ==
  \/ Start(INDI_PORT, << >>)
  \/ StartLaunch
  \/ Stop(NoPort)
  \/ StopScan
  \/ StopTerm
  \/ StopJoin
  \/ ProcessSteps
  \/ \E d \in CallDrivers : StartDriverCall(d)
  \/ \E d \in CallDrivers : StopDriverCall(d)

SpecCalls == Init /\ [][NextCalls]_vars

\* The commands of single drivers: start_driver/stop_driver on an IndiServer
\* whose server was not started (the calls only need the FIFO path).
NextCommands ==
  \/ \E d \in CommandDrivers : StartDriverCall(d)
  \/ \E d \in CommandDrivers : StopDriverCall(d)

\* An installation that has psutil, as setup.py requires
InitInstalled == Init /\ psutilInstalled

\* A batch of drivers of which most fail to start: start() with the list,
\* its starter worker, and the stop() a later start() makes.
NextBatch ==
  \/ \E ds \in BatchLists : Start(INDI_PORT, ds)
  \/ StartLaunch
  \/ StopScan
  \/ StopTerm
  \/ StopJoin
  \/ ProcessSteps
  \/ \E w \in Handles : WorkerTake(w)
  \/ \E w \in Handles : WorkerRecord(w)

SpecBatch == InitInstalled /\ [][NextBatch]_vars

SpecCommands == InitInstalled /\ [][NextCommands]_vars

\* The driver routes: start, stop and restart of single drivers
NextRestart ==
  \/ \E d \in CommandDrivers : StartDriverCall(d)
  \/ \E d \in CommandDrivers : StopDriverCall(d)
  \/ \E d \in CommandDrivers : RestartDriverCall(d)
SpecRestart == InitInstalled /\ [][NextRestart]_vars

\* The driver collection: construction on a directory, custom drivers added
\* and cleared, lookups.
InitRegistry ==
  /\ InitServer /\ psutilInstalled /\ xmldir \in Directories /\ InitCollection
  /\ InitClient /\ InitBridge /\ InitFormat /\ InitApp

NextRegistry ==
  \/ DriverCollectionInit
  \/ \E customs \in CustomLists : ParseCustomDrivers(customs)
  \/ ClearCustomDrivers
  \/ \E rules \in RuleLists : ApplyRules(rules)
  \/ \E label \in QueryLabels : ByLabel(label)
  \/ GetFamilies

SpecRegistry == InitRegistry /\ [][NextRegistry]_vars



\* The events of the PyIndi thread and the polls of the HTTP threads, on a
\* client without listeners
InitEvents ==
  /\ InitServer /\ psutilInstalled /\ xmldir = Directory(<< >>) /\ InitCollection
  /\ InitClient /\ InitBridge /\ InitFormat /\ InitApp
NextEvents ==
  \/ \E d \in Devices : NewDevice(d)
  \/ \E d \in Devices, n \in EventNames, st \in EventStates : NewProperty(Prop(d, n, st))
  \/ \E d \in Devices, n \in EventNames, st \in EventStates : UpdateProperty(Prop(d, n, st))
  \/ \E d \in Devices, n \in EventNames : RemoveProperty(d, n)
  \/ \E d \in Devices : RemoveDeviceDelete(d)
  \/ RemoveDeviceNotify
  \/ \E d \in Subjects : NewMessage(d)
  \/ \E d \in Devices : GetDirtyProperties(d)
SpecEvents == InitEvents /\ [][NextEvents]_vars

\* Writes to the properties of a device whose catalogue the server has
\* defined, the other device being unknown to the client at first, and
\* events that change the model between the writes
InitWrites ==
  /\ InitServer /\ psutilInstalled /\ xmldir = Directory(<< >>) /\ InitCollection
  /\ InitClientWith(DefineAll(NoDevices, "ccd", PropertyNames)) /\ InitBridge /\ InitFormat
  /\ InitApp
WriteEvents ==
  \/ \E st \in EventStates : UpdateProperty(Prop("ccd", "CCD_EXPOSURE", st))
  \/ NewProperty(Prop("mount", "CCD_INFO", "ok"))
  \/ RemoveProperty("ccd", "CCD_COOLER")
NextWrites ==
  \/ \E d \in Devices, n \in PropertyNames \cup { UnknownProperty }, e \in ElementDicts :
       SetProperty(d, n, e)
  \/ WriteEvents
SpecWrites == InitWrites /\ [][NextWrites]_vars

\* The registration of the event listener, the WebSockets that come and go,
\* the event loop, and the events of the client: the definition, the
\* update and the deletion of one property of one device, the removal of
\* that device, and the announcement and the messages of the other
BridgeProp == Prop("ccd", "CCD_EXPOSURE", "ok")
NextBridge ==
  \/ CreateIndiEventListener
  \/ \E w \in WebSockets, d \in Subjects : Connect(w, d)
  \/ \E w \in WebSockets, d \in Subjects : Disconnect(w, d)
  \/ SendEvent
  \/ NewDevice("mount")
  \/ NewProperty(BridgeProp)
  \/ UpdateProperty(BridgeProp)
  \/ RemoveProperty(BridgeProp.device, BridgeProp.name)
  \/ RemoveDeviceDelete(BridgeProp.device)
  \/ RemoveDeviceNotify
  \/ \E d \in { "mount", ServerName } : NewMessage(d)
SpecBridge == InitEvents /\ [][NextBridge]_vars

\* _format_number_value on one raw value and one format
InitFormats ==
  /\ InitServer /\ psutilInstalled /\ xmldir = Directory(<< >>) /\ InitCollection
  /\ InitClient /\ InitBridge /\ InitApp
  /\ formatted \in { NotFormatted(v, f) : v \in FormatValues, f \in Formats }
NextFormat == FormatNumberValue
SpecFormat == InitFormats /\ [][NextFormat]_vars

\* The requests that change the profiles, on a new database
NextDatabase ==
  \/ \E name \in ProfileNames : AddProfile(name)
  \/ \E name \in ProfileNames : DeleteProfile(name)
  \/ \E name \in ProfileNames, p \in Ports, autostart \in BOOLEAN :
       UpdateProfile(name, p, autostart)
  \/ \E name \in ProfileNames, items \in DriverItems : SaveProfileDrivers(name, items)
SpecDatabase == InitEvents /\ [][NextDatabase]_vars

\* The web application of routes.py on a directory with the descriptors of
\* drivers A and B and a database with three profiles: P1 with the local
\* drivers A and B, a remote driver and a rule for A; P2 with the local
\* driver A and no rules; Simulators as a new database has it, none of whose
\* drivers is installed.  A fourth name is that of no profile.
AppDirectory == Directory(<< MixedFile, CcdFile >>)
AppDatabase ==
  save_profile_drivers(
    update_profile(
      save_profile_drivers(NewDatabase, "P1",
        << LocalItem(<< "A" >>), RemoteItem(RemoteBinary), LocalItem(<< "B" >>) >>),
      "P1", INDI_PORT, FALSE, FALSE, Scripts(<< Rule("ok", << "A" >>) >>)),
    "P2", << LocalItem(<< "A" >>) >>)
StartProfiles == { "P1", "P2", "Simulators", "P3" }
InitRoutes ==
  /\ InitServer
  /\ xmldir = AppDirectory
  /\ collection = parse_drivers(AppDirectory).drivers
  /\ regLast = [NoOperation EXCEPT !.op = "DriverCollection"]
  /\ answer = NoAnswer
  /\ regOps = 0
  /\ InitClient /\ InitBridge /\ InitFormat /\ InitAppWith(AppDatabase)
\* The threads of the IndiServer
ServerSteps ==
  \/ StartLaunch
  \/ StopScan
  \/ StopTerm
  \/ StopJoin
  \/ ProcessSteps
  \/ \E w \in Handles : WorkerTake(w)
  \/ \E w \in Handles : WorkerRecord(w)
NextRoutes ==
  \/ \E profile \in StartProfiles : StartServerOf("routes", profile)
  \/ StartReturnedOf("routes")
  \/ StartServerReturn
  \/ StopServer
  \/ StopReturnedOf("routes")
  \/ GetServerStatus
  \/ ServerSteps
SpecRoutes == InitRoutes /\ [][NextRoutes]_vars

\* The web application of main.py, with its global INDI client, started
\* for the profiles without remote drivers (main.py reads the remote table
\* in its own way) and for the missing one
MainProfiles == { "P2", "Simulators", "P3" }
NextMain ==
  \/ \E profile \in MainProfiles : StartServerOf("main", profile)
  \/ StartReturnedOf("main")
  \/ StartClient
  \/ StopServer
  \/ StopReturnedOf("main")
  \/ ServerSteps
SpecMain == InitRoutes /\ [][NextMain]_vars

(* ------------------------------- claims -------------------------------- *)
\* The caller is between operations and the last one was op, which returned
\* without an exception.
Returned(op) == callerPc = "idle" /\ last.op = op /\ last.exc = "none"

\* A driver list with distinct labels, a binary for every driver and no
\* failing script.
ListOK(ds) ==
  /\ \A i, j \in 1..Len(ds) : i # j => ds[i].label # ds[j].label
  /\ \A i \in 1..Len(ds) : ds[i].binary # NoBinary /\ ds[i].rule \in {"none", "ok"}

\* The dictionary label -> descriptor of a driver list
AsRunning(ds) ==
  [l \in Labels |->
    IF \E i \in 1..Len(ds) : ds[i].label = l
    THEN ds[CHOOSE i \in 1..Len(ds) : ds[i].label = l]
    ELSE NoDriver]

\* C1: after start(port, drivers) with distinct labels, binaries and no
\* failing scripts, once the start-worker has drained its queue,
\* get_running_drivers() is exactly the labels passed in, each mapped to the
\* descriptor that was passed.
C1_RoundTrip ==
  (Returned("start") /\ wait_for_drivers_started /\ ListOK(wlist[async_cmd]))
    => get_running_drivers = AsRunning(wlist[async_cmd])

\* C2: every label in the running-driver set has had a "start" command
\* written to the FIFO since start() last reset the set.
C2_RunningWasIssued ==
  \A l \in Labels :
    running_drivers[l] # NoDriver
      => \E i \in 1..Len(fifo) : fifo[i].verb = "start" /\ fifo[i].drv.label = l

\* C3 (as claimed): after stop() has returned, get_running_drivers() is empty.
C3_StopClearsRunning == Returned("stop") => get_running_drivers = NoRunning

StopPcs == {"stop_scan", "stop_term", "stop_join"}

\* C3 (amended): no step of stop() changes the running-driver set; the step
\* of start() that launches the server empties it.
C3_StopKeepsRunning ==
  [][ /\ (callerPc' # callerPc /\ (callerPc \in StopPcs \/ callerPc' \in StopPcs))
          => running_drivers' = running_drivers
      /\ (callerPc = "start_launch" /\ callerPc' = "idle")
          => running_drivers' = NoRunning ]_vars

\* stop() has returned and a driver is still in the running-driver set.
C3_Witness == Returned("stop") /\ get_running_drivers # NoRunning

\* A handle that has, or is about to get, a live server process
Active(h) == runPc[h] = "spawn" \/ Alive(h)

\* C4: at most one server process handle is active at any time: whenever
\* start() launches a server, every server launched before has ended.
C4_OneActiveHandle == Cardinality({ h \in Handles : Active(h) }) <= 1

\* A second server runs after the first one was ended.
C4_Witness == \E h \in Handles : h > 1 /\ Alive(h) /\ proc[h - 1] \in {"exited", "reaped"}

\* The positions of the FIFO entries written by worker w
WrittenBy(w) == { i \in 1..Len(fifo) : fifo[i].by = w }
\* The position of driver d in queue q
Pos(q, d) == CHOOSE i \in 1..Len(q) : q[i] = d

\* C5: the start commands of one start() call reach the FIFO in the order of
\* its driver list, written by its one worker, which has dequeued every
\* driver it wrote a command for and starts one driver at a time.
C5_WorkerOrder ==
  \A w \in Handles :
    /\ \A i \in WrittenBy(w) :
         /\ fifo[i].verb = "start"
         /\ \E k \in 1..widx[w] : wlist[w][k] = fifo[i].drv
    /\ \A i, j \in WrittenBy(w) :
         i < j => Pos(wlist[w], fifo[i].drv) < Pos(wlist[w], fifo[j].drv)

\* start() has returned while its worker, which has written two commands, is
\* still starting the second driver.
C5_Witness ==
  \E w \in Handles :
    Returned("start") /\ w = async_cmd /\ wpc[w] = "post" /\ Cardinality(WrittenBy(w)) = 2

\* C6: a stop() that has returned raised nothing, and is_running() is false
\* afterwards; this holds of the first stop() and of one that follows it.
C6_StopIdempotent ==
  (callerPc = "idle" /\ last.op = "stop")
    => (last.exc = "none" /\ IsRunningOutcomes(NoPort) = {"false"})

\* C7: with psutil unavailable or failing, the is_running() that start()
\* makes does not raise, and stop() does not raise and has terminated and
\* joined the handle when it returns.
C7_NoRaiseWithoutPsutil ==
  /\ (callerPc = "idle" /\ last.op = "start") => last.exc = "none"
  /\ (callerPc = "idle" /\ last.op = "stop")
       => (last.exc = "none" /\ (async_cmd # None => runPc[async_cmd] = "done"))

\* C8: once terminate() has returned and stop() joins the command thread, the
\* handle has no running process and none is about to be spawned, whatever
\* point of run() terminate() was called at.
C8_TerminateEndsProcess ==
  callerPc = "stop_join"
    => (runPc[async_cmd] # "spawn" /\ proc[async_cmd] # "running")

\* C9 (as claimed): no call of terminate() raises.
C9_TerminateNeverRaises ==
  (callerPc = "stop_term" /\ async_cmd # None) => ~TerminateRaises(async_cmd)

\* C9 (amended): terminate() on a finished handle changes nothing and does
\* not raise; when the process is already gone, the handle is marked finished
\* and the exception reaches the caller (stop() skips the join); and an
\* exception reaches the caller in that case only.
C9_TerminateOutcome ==
  [][ (callerPc = "stop_term" /\ async_cmd # None /\ callerPc' # "stop_term")
        => /\ finished[async_cmd]
                => (finished' = finished /\ proc' = proc /\ callerPc' = "stop_join")
           /\ (~finished[async_cmd] /\ proc[async_cmd] = "reaped")
                => (finished'[async_cmd] /\ proc' = proc /\ callerPc' # "stop_join")
           /\ callerPc' # "stop_join"
                => (~finished[async_cmd] /\ proc[async_cmd] = "reaped") ]_vars

\* stop() has returned without joining: terminate() raised, and the handle
\* is marked finished while run() is still on its way to the finally block.
C9_Witness ==
  Returned("stop") /\ async_cmd # None /\ finished[async_cmd] /\ runPc[async_cmd] = "readers"

\* C10 (as claimed): is_running() is never false while the process is alive.
C10_NeverFalseWhileAlive == \A h \in Handles : Alive(h) => cmd_is_running(h)

\* C10 (amended): is_running() is true from the creation of the handle until
\* run() has ended or a termination signal was sent: it is true before the
\* spawn and while the process runs unsignalled, and false once run() has
\* ended.
C10_IsRunning ==
  \A h \in Handles :
    /\ (runPc[h] = "spawn" \/ proc[h] = "running") => cmd_is_running(h)
    /\ runPc[h] = "done" => ~cmd_is_running(h)
    /\ ~cmd_is_running(h) => (runPc[h] = "done" \/ proc[h] \in {"signalled", "exited", "reaped"})

\* terminate() has marked the handle finished while the signalled process is
\* still alive.
C10_Witness == \E h \in Handles : ~cmd_is_running(h) /\ proc[h] = "signalled" /\ runPc[h] = "wait"

(* ------------------- claims: start_driver / stop_driver ---------------- *)
\* The flag ' <name> "<value>"' as the claims write it
Flag(name, value) == << name, Quote >> \o value \o << Quote >>
\* The label flag a command carries: none for a remote binary (one that
\* contains '@') and none for a multi-device driver
LabelFlag(d) ==
  IF ~Contains(d.binary, At) /\ ~d.mdpd THEN Flag(" -n ", d.label) ELSE << >>
\* Every double quote of the text stands right after a backslash
QuotesEscaped(cmd) ==
  \A k \in 1..Len(cmd) : cmd[k] = Quote => (k > 1 /\ cmd[k - 1] = Backslash)
\* The text without its backslashes (no descriptor of the model holds one)
Unescaped(cmd) == SelectSeq(cmd, LAMBDA c : c # Backslash)

\* C11: the start command written to the FIFO is 'start <binary>', then
\* ' -s "<skeleton>"' iff the driver has a skeleton, then ' -n "<label>"' iff
\* the binary holds no '@' and the driver is not multi-device, with every
\* double quote escaped by a backslash; a remote binary never gets -n.
C11_StartCommand ==
  \A i \in 1..Len(fifo) :
    fifo[i].verb = "start" =>
      LET d == fifo[i].drv
          skel == IF d.skeleton # << >> THEN Flag(" -s ", d.skeleton) ELSE << >>
      IN /\ Unescaped(fifo[i].cmd) = << "start " >> \o d.binary \o skel \o LabelFlag(d)
         /\ QuotesEscaped(fifo[i].cmd)
         /\ Len(fifo[i].cmd) = Len(Unescaped(fifo[i].cmd))
                               + Cardinality({ k \in 1..Len(fifo[i].cmd) : fifo[i].cmd[k] = Quote })
         /\ Contains(d.binary, At) => ~Contains(fifo[i].cmd, " -n ")

\* The FIFO holds the start command of a remote driver with a skeleton that
\* has a double quote in it, and the start command of a local driver whose
\* label, with a double quote in it, was written as the -n flag.
C11_Witness ==
  /\ \E i \in 1..Len(fifo) :
       /\ fifo[i].verb = "start" /\ Contains(fifo[i].drv.binary, At)
       /\ Contains(fifo[i].drv.skeleton, Quote)
  /\ \E i \in 1..Len(fifo) :
       /\ fifo[i].verb = "start" /\ Contains(fifo[i].cmd, " -n ")
       /\ Contains(fifo[i].drv.label, Quote)

\* C12: a start_driver whose PreScript fails writes no command to the FIFO,
\* runs neither the post-delay nor the PostScript, and leaves the
\* running-driver set as it was.
C12_PreScriptAborts ==
  [][ \A d \in CommandDrivers :
        (StartDriverCall(d) /\ d.binary # NoBinary /\ d.rule = "prefail")
          => /\ fifo' = fifo
             /\ running_drivers' = running_drivers
             /\ last'.exc = "none"
             /\ Contains(last'.ran, "PreScript")
             /\ ~Contains(last'.ran, "PostDelay") /\ ~Contains(last'.ran, "PostScript") ]_vars

\* A start_driver has ended at its failed PreScript while another driver is
\* running and its command is in the FIFO.
C12_Witness ==
  /\ callerPc = "idle" /\ last.op = "start_driver"
  /\ last.ran = << "PreDelay", "PreScript" >>
  /\ fifo # << >> /\ running_drivers # NoRunning

\* C13: start_driver and stop_driver on a descriptor without a binary return
\* without raising, write nothing to the FIFO and leave the running-driver
\* set as it was.
C13_MissingBinary ==
  [][ \A d \in CommandDrivers :
        ((StartDriverCall(d) \/ StopDriverCall(d)) /\ d.binary = NoBinary)
          => /\ fifo' = fifo
             /\ running_drivers' = running_drivers
             /\ last'.exc = "none"
             /\ ~Contains(last'.ran, "write") ]_vars

\* stop_driver has returned for a descriptor without a binary whose label is
\* in the running-driver set.
C13_Witness ==
  /\ callerPc = "idle" /\ last.op = "stop_driver" /\ last.exc = "none"
  /\ last.ran = << >>
  /\ running_drivers[<< "A" >>] # NoDriver

\* C14: stop_driver on a driver whose label is in the running set, with a
\* binary and scripts that succeed, appends one command
\* 'stop <binary>[ -n "<label>"]' to the FIFO; afterwards the label is not in
\* the running set and every other entry is as before.
C14_StopDriver ==
  [][ \A d \in CommandDrivers :
        (/\ StopDriverCall(d)
         /\ running_drivers[d.label] # NoDriver
         /\ d.binary # NoBinary /\ d.rule \in {"none", "ok"})
          => /\ Len(fifo') = Len(fifo) + 1
             /\ SubSeq(fifo', 1, Len(fifo)) = fifo
             /\ fifo'[Len(fifo')].verb = "stop"
             /\ Unescaped(fifo'[Len(fifo')].cmd) = << "stop " >> \o d.binary \o LabelFlag(d)
             /\ QuotesEscaped(fifo'[Len(fifo')].cmd)
             /\ running_drivers'[d.label] = NoDriver
             /\ \A l \in Labels \ {d.label} : running_drivers'[l] = running_drivers[l]
             /\ last'.exc = "none" ]_vars

\* stop_driver has removed one of two running drivers: its stop command is
\* the last of three in the FIFO and the other driver is still in the set.
C14_Witness ==
  /\ callerPc = "idle" /\ last.op = "stop_driver" /\ last.exc = "none"
  /\ Contains(last.ran, "delete")
  /\ Len(fifo) = 3 /\ fifo[3].verb = "stop"
  /\ running_drivers[fifo[3].drv.label] = NoDriver
  /\ running_drivers # NoRunning

(* ------------------------ claims: the start worker --------------------- *)
\* C15: a driver whose start fails (failed script, exception) does not end
\* the batch.  The worker of a start() call dequeues the drivers of its list
\* one by one, each once and in order; whatever the outcome of a start it is
\* back in the loop while drivers are left, and it ends when, and only when,
\* it has attempted them all.
C15_WorkerAttemptsAll ==
  [][ \A w \in Handles :
        /\ widx'[w] # widx[w]
             => /\ wpc[w] = "loop" /\ widx'[w] = widx[w] + 1
                /\ widx'[w] <= Len(wlist[w])
                /\ wlist'[w] = wlist[w]
        /\ wpc'[w] = "loop" => widx'[w] < Len(wlist'[w])
        /\ wpc'[w] = "post" => (widx'[w] >= 1 /\ StartRecords(wlist'[w][widx'[w]]))
        /\ wpc'[w] = "done" => widx'[w] = Len(wlist'[w])
        /\ wpc[w] = "done" => (wpc'[w] = "done" /\ widx'[w] = widx[w]) ]_vars

\* The worker of the last start() has ended after four attempts: the three
\* drivers that failed are not running, the fourth is, and of the two
\* commands written the first belongs to the driver whose PostScript failed.
C15_Witness ==
  /\ async_cmd # None /\ wpc[async_cmd] = "done" /\ widx[async_cmd] = 4
  /\ Len(fifo) = 2 /\ fifo[1].by = async_cmd /\ fifo[2].by = async_cmd
  /\ fifo[1].drv.rule = "postfail" /\ fifo[2].drv.label = << "A" >>
  /\ running_drivers[<< "A" >>] # NoDriver
  /\ \A l \in Labels \ {<< "A" >>} : running_drivers[l] = NoDriver

(* ------------------------ claims: DriverCollection ---------------------- *)
\* A file that the scan reads and that is well formed: its markup parses,
\* every devGroup has its group attribute and every device its label, its
\* driver element and the name of the driver.
ValidFile(file) ==
  /\ IsDescriptorName(file.name) /\ file.parses
  /\ \A g \in 1..Len(file.groups) :
       /\ file.groups[g].group # NoAttr
       /\ \A k \in 1..Len(file.groups[g].devices) :
            LET device == file.groups[g].devices[k] IN
            device.label # NoAttr /\ device.driver.present /\ device.driver.name # NoAttr
\* The constructor of the collection has just run
Loaded == regLast.op = "DriverCollection"

\* C16: constructing the collection on a directory that does not exist, is
\* empty or holds no valid descriptor file raises nothing and gives an empty
\* driver list.
C16_EmptyLoad ==
  (Loaded /\ \A i \in 1..Len(xmldir.files) : ~ValidFile(xmldir.files[i]))
    => (regLast.exc = "none" /\ collection = << >>)

\* C17: a malformed descriptor file never aborts the scan: the constructor
\* does not raise, and every driver declared in a valid file of the
\* directory is in the list.
C17_BadFileSkipped ==
  (Loaded /\ xmldir.exists)
    => /\ regLast.exc = "none"
       /\ \A i \in 1..Len(xmldir.files) :
            ValidFile(xmldir.files[i])
              => \A g \in 1..Len(xmldir.files[i].groups) :
                   \A k \in 1..Len(xmldir.files[i].groups[g].devices) :
                     \E n \in 1..Len(collection) :
                       /\ collection[n].label = xmldir.files[i].groups[g].devices[k].label
                       /\ collection[n].family = xmldir.files[i].groups[g].group

\* C18 (as claimed): for every driver D with label L, by_label(L) returns a
\* driver with label L and by_label(L + suffix) returns D.
C18_ByLabelSameDriver ==
  answer.op = "by_label"
    => \A i \in 1..Len(collection) :
         /\ answer.arg = collection[i].label => answer.ret.label = collection[i].label
         /\ (StartsWith(answer.arg, collection[i].label) /\ answer.arg # collection[i].label)
              => answer.ret = collection[i]

\* The least of a non-empty set of positions
First(positions) == CHOOSE i \in positions : \A j \in positions : i <= j
\* The positions of the drivers with that label, and of those whose label
\* the text starts with
ExactAt(label) == { i \in 1..Len(collection) : collection[i].label = label }
PartialAt(label) == { i \in 1..Len(collection) : StartsWith(label, collection[i].label) }

\* C18 (amended): by_label returns the first driver of the list with that
\* label; when no driver has it, the first driver of the list whose label the
\* text starts with; and nothing when there is none.  So by_label(L + suffix)
\* is D only if no driver is labelled L + suffix and no driver before D has
\* a label that L + suffix starts with.
C18_ByLabel ==
  answer.op = "by_label"
    => /\ ExactAt(answer.arg) # {} => answer.ret = collection[First(ExactAt(answer.arg))]
       /\ (ExactAt(answer.arg) = {} /\ PartialAt(answer.arg) # {})
            => answer.ret = collection[First(PartialAt(answer.arg))]
       /\ PartialAt(answer.arg) = {} => answer.ret = NoEntry

\* A lookup with something appended to the label of a driver has returned
\* another driver, one with a shorter label listed before it.
C18_Witness ==
  /\ answer.op = "by_label" /\ ExactAt(answer.arg) = {}
  /\ \E i \in PartialAt(answer.arg) :
       /\ answer.ret # collection[i]
       /\ Len(answer.ret.label) < Len(collection[i].label)

\* The list as it was before the parse_custom_drivers call that has just
\* appended its drivers
BeforeAdd == SubSeq(collection, 1, Len(collection) - Len(regLast.arg))

\* C19 (as claimed): clear_custom_drivers right after parse_custom_drivers
\* gives back the list as it was before the add, whatever it held.
C19_AddClearRestores ==
  [][ (regLast.op = "parse_custom_drivers" /\ regLast'.op = "clear_custom_drivers")
        => collection' = BeforeAdd ]_vars

\* C19 (amended): clear_custom_drivers right after parse_custom_drivers
\* leaves the drivers that the list held before the add and that are not
\* custom, in their order; that is the list before the add exactly when it
\* held no custom driver.
C19_ClearRemovesCustom ==
  [][ (regLast.op = "parse_custom_drivers" /\ regLast'.op = "clear_custom_drivers")
        => /\ collection' = SelectSeq(BeforeAdd, LAMBDA d : ~d.custom)
           /\ (collection' = BeforeAdd) <=> (\A i \in 1..Len(BeforeAdd) : ~BeforeAdd[i].custom) ]_vars

\* clear_custom_drivers has run right after an add and has removed more
\* drivers than that add appended, and drivers of the directory are left.
C19_Witness ==
  /\ regLast.op = "clear_custom_drivers" /\ regLast.prev = "parse_custom_drivers"
  /\ regLast.before - Len(collection) > Len(regLast.prevArg)
  /\ collection # << >>

\* The labels of a list of drivers, in its order
LabelsOf(drivers) == [i \in 1..Len(drivers) |-> drivers[i].label]
\* The sum of the lengths of the lists of a dictionary
RECURSIVE TotalLength(_, _)
TotalLength(families, keys) ==
  IF keys = {} THEN 0
  ELSE LET f == CHOOSE k \in keys : TRUE IN
       Len(families[f]) + TotalLength(families, keys \ {f})

\* C20: get_families() partitions the driver list: its keys are the families
\* of the drivers, the list of a family is the labels of the drivers of that
\* family in list order (so every driver is listed once, under its own
\* family), and the lengths of the lists sum to the number of drivers.
C20_FamiliesPartition ==
  answer.op = "get_families"
    => /\ DOMAIN answer.ret = { collection[i].family : i \in 1..Len(collection) }
       /\ \A f \in DOMAIN answer.ret :
            answer.ret[f] = LabelsOf(SelectSeq(collection, LAMBDA d : d.family = f))
       /\ TotalLength(answer.ret, DOMAIN answer.ret) = Len(collection)

\* get_families() has returned three families for a list of drivers of the
\* directory and custom drivers, one family with four labels.
C20_Witness ==
  /\ answer.op = "get_families"
  /\ Cardinality(DOMAIN answer.ret) >= 3
  /\ \E f \in DOMAIN answer.ret : Len(answer.ret[f]) >= 4
  /\ \E i \in 1..Len(collection) : collection[i].custom

\* The greatest of a non-empty set of positions
Latest(positions) == CHOOSE i \in positions : \A j \in positions : j <= i
\* The positions in a rule list of the rules whose Driver is that label
RulesFor(list, label) == { k \in 1..Len(list) : list[k].Driver = label }

\* C21 (as claimed): apply_rules changes the rule of a driver only to a rule
\* whose Driver is the label of that driver, it leaves every rule alone when
\* no driver has the Driver of a rule as its label, and a label that rules
\* name has a driver carrying one of these rules.
C21_RulesByOwnLabel ==
  [][ \A rs \in RuleLists : ApplyRules(rs) =>
        /\ \A i \in 1..Len(collection) :
             collection'[i].rule # collection[i].rule
               => \E k \in RulesFor(rs.list, collection[i].label) :
                    collection'[i].rule = rs.list[k].id
        /\ (\A k \in 1..Len(rs.list) : ExactAt(rs.list[k].Driver) = {})
             => collection' = collection
        /\ \A k \in 1..Len(rs.list) :
             ExactAt(rs.list[k].Driver) # {}
               => \E i \in ExactAt(rs.list[k].Driver), m \in RulesFor(rs.list, rs.list[k].Driver) :
                    collection'[i].rule = rs.list[m].id ]_vars

\* The position of the driver a rule is attached to: the one by_label finds
\* for its Driver (0 when it finds none or the rule names no driver)
TargetOf(rule) ==
  IF ~Truthy(rule.Driver) THEN 0
  ELSE IF ExactAt(rule.Driver) # {} THEN First(ExactAt(rule.Driver))
  ELSE IF PartialAt(rule.Driver) # {} THEN First(PartialAt(rule.Driver))
  ELSE 0

\* C21 (amended): apply_rules attaches each rule that names a driver to the
\* one driver by_label finds for that name: the first driver with that label
\* or, when there is none, the first driver whose label the name starts
\* with.  A driver carries the last rule of the list attached to it; every
\* other driver, and everything but the rule, is unchanged; and with an empty
\* or absent list, or when by_label finds no driver, nothing changes.
C21_ApplyRules ==
  [][ \A rs \in RuleLists : ApplyRules(rs) =>
        /\ Len(collection') = Len(collection)
        /\ \A i \in 1..Len(collection) :
             LET hits == { k \in 1..Len(rs.list) : TargetOf(rs.list[k]) = i } IN
             collection'[i] = IF hits = {} THEN collection[i]
                              ELSE [collection[i] EXCEPT !.rule = rs.list[Latest(hits)].id]
        /\ (\A k \in 1..Len(rs.list) : TargetOf(rs.list[k]) = 0) => collection' = collection ]_vars

\* apply_rules has attached a rule to a driver whose label is not the Driver
\* of that rule but a shorter text it starts with.
C21_Witness ==
  /\ regLast.op = "apply_rules"
  /\ \E i \in 1..Len(collection), k \in 1..Len(regLast.arg) :
       /\ collection[i].rule = regLast.arg[k].id
       /\ regLast.arg[k].Driver # collection[i].label
       /\ StartsWith(regLast.arg[k].Driver, collection[i].label)

(* --------------------------- claims: INDIClient ------------------------ *)
\* A value that does not parse as a number, a value that is no spelling of
\* On or Off
NotANumber(value) == value.type # "str" \/ float(value.text).exc # "none"
NotASwitch(value) == value.type # "str" \/ value.text \notin SwitchSpellings
\* The classification of a write, in the order of the checks: the first rule
\* that rejects it, or accepted
Classified(prop, elements) ==
  IF prop = NoProperty THEN "property_not_found"
  ELSE IF prop.perm = "ro" THEN "permission_denied"
  ELSE IF \E i \in 1..Len(elements) : elements[i].name \notin prop.elements
       THEN "element_not_found"
  ELSE IF prop.type = "number" /\ \E i \in 1..Len(elements) : NotANumber(elements[i].value)
       THEN "invalid_value"
  ELSE IF prop.type = "switch" /\ \E i \in 1..Len(elements) : NotASwitch(elements[i].value)
       THEN "invalid_value"
  ELSE IF prop.type \notin { "text", "number", "switch" } THEN "unsupported_type"
  ELSE "accepted"
\* A step that is a call of set_property, and the classification of the
\* write it was called with
SetPropertyStep == clientLast'.op = "set_property" /\ clientOps' = clientOps + 1
ClassifiedStep ==
  Classified(get_property(properties, clientLast'.device, clientLast'.name),
             clientLast'.elements)
CommandStep == Command(clientLast'.device, clientLast'.name, clientLast'.elements)

\* C22: set_property raises nothing, and a write that one of the rules
\* rejects returns the error type of the first rule that rejects it: unknown
\* property, read-only property, unknown element, value that is no number or
\* no On/Off, unsupported type.
C22_RejectionsClassified ==
  [][ SetPropertyStep =>
        /\ clientLast'.exc = "none"
        /\ ClassifiedStep # "accepted" => clientLast'.result = ClassifiedStep ]_vars

\* C23: set_property leaves the property model (and the dirty names) as they
\* are; it hands a command to the server only when nothing rejects the
\* write, and then exactly the command it was called with; a success result
\* means that command was handed over; and the model changes only by an
\* event of the server.
C23_SetPropertySendsOnly ==
  [][ /\ SetPropertyStep =>
           /\ properties' = properties /\ dirty' = dirty
           /\ sent' # sent => (ClassifiedStep = "accepted" /\ sent' = Append(sent, CommandStep))
           /\ clientLast'.result = "success" => sent' = Append(sent, CommandStep)
      /\ properties' # properties => clientLast'.op \in { "newProperty", "updateProperty", "removeProperty" }
      /\ sent' # sent => SetPropertyStep ]_vars

\* A write of two number elements has returned success and its command was
\* sent, while the model still holds the property as the server defined it.
C23_Witness ==
  /\ clientLast.op = "set_property" /\ clientLast.result = "success"
  /\ clientLast.name = "CCD_EXPOSURE" /\ Len(clientLast.elements) = 2
  /\ sent # << >> /\ sent[Len(sent)].elements = clientLast.elements
  /\ get_property(properties, "ccd", "CCD_EXPOSURE") = Prop("ccd", "CCD_EXPOSURE", "idle")

\* A step that is a definition, an update or a deletion event of the
\* property name of device, and a step in which removeDevice deletes the
\* entry of device
EventStep(op, device, name) ==
  /\ clientLast'.op = op /\ clientOps' = clientOps + 1 /\ handling' = handling
  /\ clientLast'.device = device /\ clientLast'.name = name
DeviceDeletedStep(device) ==
  handling = NoHandling /\ handling' # NoHandling /\ handling'.device = device
\* The property data the listeners were called with in the step
DataOfStep == notified'[1].data

\* C24: no property is known at first; after a definition get_property
\* returns the data defined; after an update of a known property it returns
\* the data of the update; after a deletion of the property or of its device
\* it returns nothing; an update of a property that is not in the model
\* leaves the model as it is and calls no listener; and no other step
\* changes what get_property returns.
C24_GetPropertyLatest ==
  /\ \A d \in Devices, n \in PropertyNames : get_property(properties, d, n) = NoProperty
  /\ [][ \A d \in Devices, n \in PropertyNames :
           LET before == get_property(properties, d, n)
               after == get_property(properties', d, n) IN
           IF EventStep("newProperty", d, n)
           THEN after # NoProperty /\ after = DataOfStep
           ELSE IF EventStep("updateProperty", d, n)
           THEN IF before # NoProperty
                THEN after # NoProperty /\ after = DataOfStep
                ELSE after = NoProperty /\ properties' = properties /\ notified' = << >>
           ELSE IF EventStep("removeProperty", d, n) \/ DeviceDeletedStep(d)
           THEN after = NoProperty
           ELSE after = before ]_vars

\* A property was defined and then updated, and get_property returns the
\* data of the update, which differs from the data of the other device's
\* property of that name.
C24_Witness ==
  /\ clientLast.op = "updateProperty" /\ clientLast.known
  /\ clientLast.device = "ccd" /\ clientLast.name = "CCD_EXPOSURE"
  /\ get_property(properties, "ccd", "CCD_EXPOSURE") = Prop("ccd", "CCD_EXPOSURE", "ok")
  /\ get_property(properties, "mount", "CCD_EXPOSURE") = Prop("mount", "CCD_EXPOSURE", "idle")
  /\ get_property(properties, "ccd", "CCD_COOLER") = NoProperty

\* The model without the property name of device
Without(props, device, name) ==
  [d \in DOMAIN props |->
     IF d = device THEN [n \in DOMAIN props[d] \ {name} |-> props[d][n]] ELSE props[d]]

\* C25: a deletion of a property that is in the model removes that property
\* and nothing else, the entry of its device staying; removeDevice removes
\* the entry of the device with all its properties in the one step in which
\* the model changes, leaving the other devices as they are, and then calls
\* the listeners with device_deleted; so in every state a device of the
\* model has all the properties it had after the last event that was not
\* its removal.
C25_DeletionsExact ==
  [][ /\ \A d \in Devices, n \in PropertyNames :
           EventStep("removeProperty", d, n) /\ Known(properties, d, n) =>
             /\ properties' = Without(properties, d, n)
             /\ d \in DOMAIN properties'
             /\ \A e \in Devices, m \in PropertyNames :
                  << e, m >> # << d, n >> =>
                    get_property(properties', e, m) = get_property(properties, e, m)
      /\ \A d \in Devices :
           DeviceDeletedStep(d) =>
             /\ d \notin DOMAIN properties'
             /\ \A e \in DOMAIN properties \ {d} :
                  e \in DOMAIN properties' /\ properties'[e] = properties[e]
             /\ DOMAIN properties' \subseteq DOMAIN properties
      /\ handling # NoHandling =>
           /\ properties' = properties
           /\ handling' # handling =>
                /\ handling' = NoHandling
                /\ notified' = << Notification("device_deleted", handling.device, NoData) >>
      /\ \A d \in DOMAIN properties :
           (\E n \in DOMAIN properties[d] : n \notin DOMAIN get_device_properties(properties', d)) =>
             \/ d \notin DOMAIN properties'
             \/ \E n \in DOMAIN properties[d] :
                  /\ EventStep("removeProperty", d, n)
                  /\ DOMAIN properties'[d] = DOMAIN properties[d] \ {n} ]_vars

\* A device with two properties was removed, both going with it, and the
\* listeners have been called with device_deleted.
C25_Witness ==
  /\ clientLast.op = "removeDevice" /\ clientLast.device = "ccd"
  /\ clientLast.names = EventNames
  /\ "ccd" \notin DOMAIN properties
  /\ notified = << Notification("device_deleted", "ccd", NoData) >>

\* A step in which get_dirty_properties(device) is called
DrainStep(device) ==
  /\ clientLast'.op = "get_dirty_properties" /\ clientOps' = clientOps + 1
  /\ handling' = handling /\ clientLast'.device = device

RawFloat == ToFloat(formatted.value)
AbsoluteRaw == Str(Tail(formatted.value.text))
\* The call was made with a str value and a str format
TextCall == formatted.done /\ formatted.value # PyNone /\ formatted.format # PyNone

\* C27: when a finite negative raw value is formatted with a %m pattern, the
\* result is "-" followed by what the absolute raw value gives with that
\* pattern, also when the degrees are zero.
C27_SignKept ==
  ( /\ TextCall
    /\ SexagesimalMatch(formatted.format.text).matched
    /\ RawFloat.exc = "none" /\ RawFloat.kind = "finite"
    /\ RawFloat.neg /\ RawFloat.units > 0 ) =>
      /\ formatted.exc = "none"
      /\ formatted.result.type = "str"
      /\ formatted.result.text =
           << "-" >> \o _format_number_value(AbsoluteRaw, formatted.format).value.text
      /\ _format_number_value(AbsoluteRaw, formatted.format).value.text[1] # "-"

\* A value of less than a degree below zero was formatted to minutes and
\* seconds and kept its sign.
C27_Witness ==
  /\ formatted.done
  /\ formatted.value = Str(<< "-", "0", ".", "5", "0", "2", "7", "7", "7", "8" >>) /\ formatted.format = Str(<< "%", "6", "m" >>)
  /\ formatted.result = Str(<< "-", "0", "0", ":", "3", "0", ":", "1", "0" >>)

\* C28 (as claimed): -0.5027778 under %9m gives -00:30:10, and 1.105 under
\* %6.6m gives 01:06:18.
C28_ExamplesAsClaimed ==
  /\ (formatted.done /\ formatted.value = Str(<< "-", "0", ".", "5", "0", "2", "7", "7", "7", "8" >>) /\ formatted.format = Str(<< "%", "9", "m" >>))
       => formatted.result = Str(<< "-", "0", "0", ":", "3", "0", ":", "1", "0" >>)
  /\ (formatted.done /\ formatted.value = Str(<< "1", ".", "1", "0", "5" >>) /\ formatted.format = Str(<< "%", "6", ".", "6", "m" >>))
       => formatted.result = Str(<< "0", "1", ":", "0", "6", ":", "1", "8" >>)

\* C28 (amended): -0.5027778 under %9m gives -00:30:10.00, the precision
\* being the width 9 and so with hundredths of a second, and 1.105 under
\* %6.6m gives 01:06:18.
C28_Examples ==
  /\ (formatted.done /\ formatted.value = Str(<< "-", "0", ".", "5", "0", "2", "7", "7", "7", "8" >>) /\ formatted.format = Str(<< "%", "9", "m" >>))
       => formatted.exc = "none" /\ formatted.result = Str(<< "-", "0", "0", ":", "3", "0", ":", "1", "0", ".", "0", "0" >>)
  /\ (formatted.done /\ formatted.value = Str(<< "1", ".", "1", "0", "5" >>) /\ formatted.format = Str(<< "%", "6", ".", "6", "m" >>))
       => formatted.exc = "none" /\ formatted.result = Str(<< "0", "1", ":", "0", "6", ":", "1", "8" >>)

\* -0.5027778 was formatted under %9m, to a text of twelve characters.
C28_Witness ==
  /\ formatted.done /\ formatted.exc = "none"
  /\ formatted.value = Str(<< "-", "0", ".", "5", "0", "2", "7", "7", "7", "8" >>) /\ formatted.format = Str(<< "%", "9", "m" >>)
  /\ Len(formatted.result.text) = 12

\* A format none of the supported shapes matches: a % format with an m that
\* is no %<width>[.<precision>]m pattern, a printf specifier the % operator
\* rejects, a colon pattern with other than one or two colons
UnsupportedFormat(fmt) ==
  IF StartsWith(fmt, << "%" >>) /\ Contains(fmt, "m") THEN ~SexagesimalMatch(fmt).matched
  ELSE IF StartsWith(fmt, << "%" >>) /\ (Contains(fmt, "d") \/ Contains(fmt, "i")) THEN FALSE
  ELSE IF StartsWith(fmt, << "%" >>) /\ \E c \in { "f", "e", "E", "g", "G" } : Contains(fmt, c)
  THEN PercentFrom(fmt, 1, 0, Float("finite", FALSE, 0), << >>).exc # "none"
  ELSE Contains(fmt, ":") /\ Count(fmt, ":") \notin { 1, 2 }

\* C29: _format_number_value raises nothing, and when the raw value is no
\* number or the format is of no supported shape it returns the raw value as
\* it was given.
C29_NeverRaisesNeverLoses ==
  formatted.done =>
    /\ formatted.exc = "none"
    /\ ( \/ formatted.value = PyNone
         \/ RawFloat.exc # "none"
         \/ formatted.format # PyNone /\ UnsupportedFormat(formatted.format.text) )
         => formatted.result = formatted.value

(* ------------------------ claims: WebSocketManager --------------------- *)
\* A step in which a handler of the client calls the listeners, and a step
\* in which the event loop runs a send_event coroutine
NotifyStep ==
  \/ clientOps' = clientOps + 1 /\ handling' = handling /\ notified' # << >>
  \/ handling # NoHandling /\ handling' = NoHandling
SendStep == scheduled # << >> /\ scheduled' = Tail(scheduled)
\* send_event reaches the WebSockets connected for the device of the event
\* and no other: each of them gets the event, or its send fails and it is
\* discarded; the connections for the other devices stay.
FanOut ==
  LET note == Head(scheduled)
      subscribed == connections[note.device]
  IN /\ \A w \in WebSockets :
          IF w \in subscribed
          THEN \/ delivered'[w] = Append(delivered[w], note) /\ w \in connections'[note.device]
               \/ delivered'[w] = delivered[w] /\ w \notin connections'[note.device]
          ELSE delivered'[w] = delivered[w]
     /\ \A d \in Subjects \ { note.device } : connections'[d] = connections[d]
     /\ connections'[note.device] \subseteq subscribed

\* C30 (as claimed): once the listener is registered, every event the client
\* notifies (property defined, updated, deleted, message, device added,
\* device deleted) is handed to send_event, which sends it to every
\* WebSocket connected for the device of the event and to no other.
C30_ForwardsEveryEvent ==
  [][ /\ (NotifyStep /\ listeners # << >>) => scheduled' = Append(scheduled, notified'[1])
      /\ SendStep => FanOut ]_vars

\* The events the client notifies without data
DataLess == { "device_added", "device_deleted" }

\* C30 (amended): once the listener is registered, every event the client
\* notifies with data (property defined, updated, deleted, message) is
\* handed to send_event, which sends it to every WebSocket connected for the
\* device of the event and to no other; device added and device deleted,
\* which the client notifies without data, are not forwarded; and nothing
\* is forwarded before the listener is registered.
C30_ForwardsEventsWithData ==
  [][ /\ NotifyStep =>
           scheduled' = IF listeners # << >> /\ notified'[1].event \notin DataLess
                        THEN Append(scheduled, notified'[1])
                        ELSE scheduled
      /\ SendStep => FanOut
      /\ \A w \in WebSockets : delivered'[w] # delivered[w] => SendStep ]_vars

\* A WebSocket connected for one device has received the definition of a
\* property of that device, and the WebSocket connected for the other device
\* has received nothing.
C30_Witness ==
  /\ delivered["ws1"] = << Notification("property_defined", "ccd", Prop("ccd", "CCD_EXPOSURE", "ok")) >>
  /\ "ws1" \in connections["ccd"]
  /\ "ws2" \in connections["mount"] /\ delivered["ws2"] = << >>
  /\ clientLast.op = "newDevice"

(* --------------------------- claims: Database -------------------------- *)
\* The profiles of a database that have autostart set
Autostarting(d) == { i \in 1..Len(d.profile) : d.profile[i].autostart # 0 }

\* C32: at most one profile has autostart set, whatever requests added,
\* updated and deleted profiles; and when update_profile was called with
\* autostart true, no profile but the updated one has autostart set.
C32_OneAutostart ==
  /\ Cardinality(Autostarting(db)) <= 1
  /\ (appLast.op = "update_profile" /\ appLast.autostart) =>
       \A i \in Autostarting(db) : db.profile[i].name = appLast.profile

\* A profile was given autostart while another profile had it.
C32_Witness ==
  /\ appLast.op = "update_profile" /\ appLast.autostart
  /\ \E i \in Autostarting(appLast.prev) : appLast.prev.profile[i].name # appLast.profile
  /\ \E i \in Autostarting(db) : db.profile[i].name = appLast.profile


(* --------------------------- claims: routes ---------------------------- *)
\* C31: when the start-server request of a profile is answered with success,
\* the server status reports running with active_profile equal to that
\* profile; when the stop-server request is answered, the status reports not
\* running with an empty active_profile.
C31_StatusFollowsRequest ==
  [][ /\ (awaiting # Nobody /\ awaiting' = Nobody) =>
           /\ (IsRunningOutcomes(NoPort))' = {"true"}
           /\ active_profile' = appLast'.profile
      /\ (appPc = "stop_server" /\ appPc' = "idle" /\ appLast'.status = 200) =>
           /\ (IsRunningOutcomes(NoPort))' = {"false"}
           /\ active_profile' = "" ]_vars


\* The place the order of C33 gives a driver: 0 with a lifecycle rule, 1 for
\* a remote driver without one, 2 for every other driver
ClaimedRank(d) ==
  IF d.rule # "none" THEN 0 ELSE IF d.label = RemoteBinary THEN 1 ELSE 2

\* C33: the list start_profile hands to indi_server.start has the drivers
\* that carry a lifecycle rule first, then the remote drivers, then all
\* other drivers.
C33_RuleCarriersFirst ==
  call.op = "start" =>
    \A i, j \in 1..Len(call.drivers) :
      i < j => ClaimedRank(call.drivers[i]) <= ClaimedRank(call.drivers[j])


(* ------------------------ claims: driver routes ------------------------ *)
\* C34: stop_driver on a driver that is not in the running set returns
\* without raising and leaves the running set unchanged, and a restart of a
\* driver that is not running succeeds and ends with the driver in the
\* running set.
C34_StopOfIdleDriver ==
  [][ \A d \in CommandDrivers :
        (driverOps' = driverOps + 1 /\ running_drivers[d.label] = NoDriver) =>
          /\ (last'.op = "stop_driver" /\ fifo' = Append(fifo, FifoEntry("stop", d, 0))) =>
               (last'.exc = "none" /\ running_drivers' = running_drivers)
          /\ (/\ last'.op = "restart_driver"
              /\ Len(fifo') > Len(fifo)
              /\ fifo'[Len(fifo) + 1] = FifoEntry("stop", d, 0)
              /\ StartRecords(d)) =>
               (last'.exc = "none" /\ running_drivers'[d.label] = d) ]_vars


(* ---------------------- claims: server generations --------------------- *)
\* The generation of worker w has ended: a later start() has reset the
\* running set, or stop() has returned since the last start()
GenerationEnded(w) == w < nstarts \/ (last.op = "stop" /\ last.exc = "none")

\* C35: a start-worker never acts for a server generation that has ended: no
\* step of such a worker writes to the FIFO or adds to the running set.
C35_NoStaleWorker ==
  [][ \A w \in Handles :
        (/\ GenerationEnded(w)
         /\ widx'[w] # widx[w] \/ (wpc[w] = "post" /\ wpc'[w] # "post"))
        => (fifo' = fifo /\ running_drivers' = running_drivers) ]_vars


\* C36: whenever start_driver has written a start command to the FIFO and
\* returned, the label of the driver is in the running set, also when its
\* PostScript fails; whenever stop_driver has written a stop command and
\* returned, the label is not in the set.
C36_WrittenIsRecorded ==
  [][ \A d \in CommandDrivers :
        (driverOps' = driverOps + 1 /\ last'.exc = "none") =>
          /\ (last'.op = "start_driver" /\ fifo' = Append(fifo, FifoEntry("start", d, 0))) =>
               running_drivers'[d.label] # NoDriver
          /\ (last'.op = "stop_driver" /\ fifo' = Append(fifo, FifoEntry("stop", d, 0))) =>
               running_drivers'[d.label] = NoDriver ]_vars


\* C37: the lifecycle rule a driver carries when a profile is started is one
\* of the rules of that profile: a rule applied for a profile started before
\* is not carried into the start of a profile without it.
C37_RulesOfTheProfile ==
  call.op = "start" =>
    \A i \in 1..Len(call.drivers) :
      call.drivers[i].rule # "none" =>
        \E r \in 1..Len(ProfileScripts(get_profile(db, active_profile)).list) :
          ProfileScripts(get_profile(db, active_profile)).list[r].id = call.drivers[i].rule


(* ----------------------- claims: sexagesimal fields -------------------- *)
\* The whole part of the field that follows the colon at position i of t
FieldAfter(t, i) == DigitsValue(SubSeq(t, i + 1, DigitRunEnd(t, i + 1)), 0)

\* C38: in every sexagesimal rendering of a finite value, the minutes field
\* and the seconds field are each less than 60 at the displayed precision.
C38_FieldsBelowSixty ==
  ( /\ TextCall
    /\ SexagesimalMatch(formatted.format.text).matched
    /\ RawFloat.exc = "none" /\ RawFloat.kind = "finite"
    /\ formatted.exc = "none" /\ formatted.result.type = "str" ) =>
      \A i \in 1..Len(formatted.result.text) :
        formatted.result.text[i] = ":" => FieldAfter(formatted.result.text, i) < 60


(* -------------------------- claims: INDI client ------------------------ *)
\* C39: whenever the global INDI client is connected by a start-server
\* request, the WebSocket event listener is registered on the client object
\* in use, also after a stop followed by a new start.
C39_ListenerOnClient ==
  (indi_client # None /\ connected) =>
    \E i \in 1..Len(listeners) : listeners[i] = "indi_event_listener"


(* ----------------------- claims: missing profile ----------------------- *)
\* C40: a start-server request that fails because the profile does not
\* exist leaves the application state unchanged: active_profile and
\* saved_profile keep their values and the server and the running set are
\* untouched.
C40_FailedStartChangesNothing ==
  [][ (/\ appOps' = appOps + 1 /\ appPc' = appPc /\ awaiting' = awaiting
       /\ appLast'.op = "start_server" /\ appLast'.status = 404) =>
        /\ active_profile' = active_profile
        /\ saved_profile' = saved_profile
        /\ UNCHANGED << async_cmd, port, running_drivers, fifo, nstarts, hvars, wvars >> ]_vars

====
